---- MODULE Spec2Model ----
(***************************************************************************)
(* A model of plox, the tree-walking Lox interpreter: the driver Lox.run,  *)
(* the resolver, the environment chain, the runtime values and the         *)
(* evaluation of statements and expressions.                               *)
(*                                                                         *)
(* Python exceptions are modelled as the `ex` field of an evaluation       *)
(* result; their class is kept (LoxRuntimeError, RuntimeError, NameError,  *)
(* ...) because Interpreter.interpret catches LoxRuntimeError only.        *)
(* Lox numbers are Python floats; the model keeps them to integers.        *)
(***************************************************************************)
EXTENDS Integers, Sequences, FiniteSets, TLC

VARIABLES
    pc,                 \* position inside Lox.run: "idle", "parsed", "resolving", "resolved", "interpreting", "returned", "crashed"
    mode,               \* who drives the program: "direct" (a caller of Lox.run such as a test), "prompt" (run_prompt), "api" (a caller of the runtime objects), "eq" (a caller of the equality operators)
    source,             \* index in Programs of the source handed to Lox.run
    statements,         \* the local `statements` of Lox.run
    had_error,          \* Lox.had_error
    had_runtime_error,  \* Lox.had_runtime_error
    interpreter,        \* the module-level Interpreter object and the heap of objects it reaches
    stdout,             \* the lines written by print
    next_stmt,          \* index of the next top-level statement in the resolve loop or in Interpreter.interpret
    uncaught,           \* class of the Python exception that left Lox.run, "none" otherwise
    runs,               \* number of calls of Lox.run so far
    hist,               \* history of the current run: which stages ran, which reported an error
    last,               \* the last direct call of a runtime object and its outcome
    resolver,           \* the Resolver object of the current run
    scanner,            \* the Scanner object of the current run
    parser              \* the Parser object of the current run

vars == <<pc, mode, source, statements, had_error, had_runtime_error, interpreter,
          stdout, next_stmt, uncaught, runs, hist, last, resolver, scanner, parser>>

(***************************************************************************)
(* Runtime values: Python objects tagged with their Python type.           *)
(***************************************************************************)
Nil == [tag |-> "nil"]
Bool(b) == [tag |-> "bool", v |-> b]
Num(n) == [tag |-> "num", v |-> n]
Str(s) == [tag |-> "str", v |-> s]
ClockV == [tag |-> "native"]
\* A LoxFunction object; oid stands for the object's identity.
FunV(oid, declaration, closure, is_initializer) ==
    [tag |-> "fun", oid |-> oid, declaration |-> declaration, closure |-> closure,
     is_initializer |-> is_initializer]
\* A LoxClass object; superclass is a class value or Nil (Python None).
ClassV(oid, name, superclass, methods) ==
    [tag |-> "class", oid |-> oid, name |-> name, superclass |-> superclass,
     methods |-> methods]
\* A LoxInstance object: a reference into interpreter.instances.
InstV(id) == [tag |-> "inst", id |-> id]

EmptyDict == [n \in {} |-> Nil]

\* isinstance(x, LoxCallable)
IsLoxCallable(x) == x.tag \in {"fun", "class", "native"}

\* Python's `left == right` on the objects a Lox program can hold: None equals
\* None, bool and float compare by number (True == 1.0), strings by content,
\* every other object by identity.
PyEq(left, right) ==
    CASE left.tag = "nil" -> right.tag = "nil"
      [] left.tag \in {"bool", "num"} ->
            /\ right.tag \in {"bool", "num"}
            /\ (IF left.tag = "bool" THEN (IF left.v THEN 1 ELSE 0) ELSE left.v)
               = (IF right.tag = "bool" THEN (IF right.v THEN 1 ELSE 0) ELSE right.v)
      [] left.tag = "str" -> right.tag = "str" /\ left.v = right.v
      [] left.tag \in {"fun", "class"} -> right.tag = left.tag /\ left.oid = right.oid
      [] left.tag = "inst" -> right.tag = "inst" /\ left.id = right.id
      [] left.tag = "native" -> right.tag = "native"
      [] OTHER -> FALSE

lox_eq_untyped(left, right) == PyEq(left, right)

\* _lox_eq
lox_eq(left, right) ==
    IF left.tag # right.tag THEN FALSE ELSE PyEq(left, right)

is_truthy(obj) ==
    IF obj.tag = "nil" THEN FALSE
    ELSE IF obj.tag = "bool" THEN obj.v
    ELSE TRUE

\* is_truthy applied to an Expr object instead of a value: an Expr is neither
\* None nor a bool.
is_truthy_of_node(expr) == TRUE

\* LoxInstance.__repr__ needs the class name, so stringify takes the heap of instances.
stringify(obj, instances) ==
    CASE obj.tag = "nil" -> "nil"
      [] obj.tag = "bool" -> IF obj.v THEN "true" ELSE "false"
      [] obj.tag = "num" -> ToString(obj.v)
      [] obj.tag = "str" -> obj.v
      [] obj.tag = "fun" -> "<fn " \o obj.declaration.name \o ">"
      [] obj.tag = "class" -> obj.name
      [] obj.tag = "inst" -> "(instance " \o instances[obj.id].class.name \o ")"
      [] OTHER -> "<native fn>"

(***************************************************************************)
(* Evaluation results.  s is the interpreter (with stdout as field out),   *)
(* ex the Python exception in flight, v the value returned.                *)
(***************************************************************************)
\* An exception object.  arity and got are kept for the arity error of
\* Call.evaluate: the number of parameters the callee declares and the number
\* of arguments of the call.
Exc(kind, msg) == [kind |-> kind, msg |-> msg, value |-> Nil, arity |-> 0, got |-> 0]
NoEx == Exc("none", "")
Ok(s, v) == [s |-> s, ex |-> NoEx, v |-> v]
Raise(s, kind, msg) == [s |-> s, ex |-> Exc(kind, msg), v |-> Nil]
\* raise FakeReturnError(value)
RaiseReturn(s, value) ==
    [s |-> s, ex |-> [Exc("FakeReturnError", "") EXCEPT !.value = value], v |-> Nil]
Raised(r) == r.ex.kind # "none"

(***************************************************************************)
(* Environment.  interpreter.envs is the heap of Environment objects,     *)
(* an Environment is named by its index, 0 is Python None.                 *)
(***************************************************************************)
GlobalsEnv == 1

\* Environment(enclosing): the new object is the last of the heap.
Environment_new(s, enclosing) ==
    [s EXCEPT !.envs = Append(@, [values |-> EmptyDict, enclosing |-> enclosing])]

NewestEnv(s) == Len(s.envs)

\* Environment.define
define(s, env, name, value) ==
    [s EXCEPT !.envs[env].values = (name :> value) @@ @]

RECURSIVE ancestor_walk(_, _, _)
\* the loop of Environment.ancestor; -1 is the RuntimeError "Enclosing environment is nil"
ancestor_walk(s, environment, distance) ==
    IF distance <= 0 THEN environment
    ELSE IF environment = 0 THEN -1
    ELSE ancestor_walk(s, s.envs[environment].enclosing, distance - 1)

\* Environment.ancestor: an Environment index, or -1 when it raises RuntimeError
ancestor(s, env, distance) ==
    LET environment == ancestor_walk(s, env, distance)
    IN  IF environment <= 0 THEN -1 ELSE environment

\* Environment.get_at: dict.get gives None for an absent name
get_at(s, env, distance, name) ==
    LET a == ancestor(s, env, distance)
    IN  IF a = -1 THEN Raise(s, "RuntimeError", "Environment is nil")
        ELSE IF name \in DOMAIN s.envs[a].values THEN Ok(s, s.envs[a].values[name])
        ELSE Ok(s, Nil)

\* Environment.assign_at
assign_at(s, env, distance, name, value) ==
    LET a == ancestor(s, env, distance)
    IN  IF a = -1 THEN Raise(s, "RuntimeError", "Environment is nil")
        ELSE Ok(define(s, a, name, value), Nil)

RECURSIVE get(_, _, _)
\* Environment.get
get(s, env, name) ==
    IF name \in DOMAIN s.envs[env].values THEN Ok(s, s.envs[env].values[name])
    ELSE IF s.envs[env].enclosing # 0 THEN get(s, s.envs[env].enclosing, name)
    ELSE Raise(s, "LoxRuntimeError", "Undefined variable")

RECURSIVE assign(_, _, _, _)
\* an assign that writes the environment it is called on, as define does
assign_as_define(s, env, name, value) == Ok(define(s, env, name, value), Nil)

\* Environment.assign
assign(s, env, name, value) ==
    IF name \in DOMAIN s.envs[env].values THEN Ok(define(s, env, name, value), Nil)
    ELSE IF s.envs[env].enclosing # 0 THEN assign(s, s.envs[env].enclosing, name, value)
    ELSE Raise(s, "LoxRuntimeError", "Undefined variable")

(***************************************************************************)
(* The syntax trees the parser builds.  Variable, Assign, This and Super   *)
(* nodes carry an id: the object identity that keys interpreter.locals.    *)
(***************************************************************************)
NoNode == [k |-> "None"]
Literal(value) == [k |-> "Literal", value |-> value]
VariableExpr(id, name) == [k |-> "Variable", id |-> id, name |-> name]
Assign(id, name, value) == [k |-> "Assign", id |-> id, name |-> name, value |-> value]
Unary(operator, right) == [k |-> "Unary", operator |-> operator, right |-> right]
Binary(left, operator, right) ==
    [k |-> "Binary", left |-> left, operator |-> operator, right |-> right]
Logical(left, operator, right) ==
    [k |-> "Logical", left |-> left, operator |-> operator, right |-> right]
Grouping(expression) == [k |-> "Grouping", expression |-> expression]
Call(callee, arguments) == [k |-> "Call", callee |-> callee, arguments |-> arguments]
Get(object, name) == [k |-> "Get", object |-> object, name |-> name]
SetExpr(object, name, value) ==
    [k |-> "Set", object |-> object, name |-> name, value |-> value]
This(id) == [k |-> "This", id |-> id]
Super(id, method) == [k |-> "Super", id |-> id, method |-> method]

Expression(expression) == [k |-> "Expression", expression |-> expression]
PrintStmt(expression) == [k |-> "Print", expression |-> expression]
VarStmt(name, initializer) == [k |-> "Var", name |-> name, initializer |-> initializer]
Block(stmts) == [k |-> "Block", statements |-> stmts]
If(condition, then_branch, else_branch) ==
    [k |-> "If", condition |-> condition, then_branch |-> then_branch,
     else_branch |-> else_branch]
While(condition, body) == [k |-> "While", condition |-> condition, body |-> body]
Function(name, params, body) ==
    [k |-> "Function", name |-> name, params |-> params, body |-> body]
Return(value) == [k |-> "Return", value |-> value]
Class(name, superclass, methods) ==
    [k |-> "Class", name |-> name, superclass |-> superclass, methods |-> methods]

\* The key of an expression in interpreter.locals; 0 for the nodes that
\* resolve_local never records.
NodeId(expr) == IF expr.k \in {"Variable", "Assign", "This", "Super"} THEN expr.id ELSE 0

(***************************************************************************)
(* Resolver.  rs is the Resolver object together with what it writes:     *)
(* interpreter.locals and the errors it reports through Lox.error_token.   *)
(***************************************************************************)
Resolver_new(locals) ==
    [scopes |-> <<>>, current_function |-> "NONE", current_class |-> "NONE",
     locals |-> locals, errors |-> <<>>, trace |-> <<>>]

\* An entry of the resolver's trace, which the program does not keep: what
\* resolve_local recorded ("local": the expression, the name, the scopes stepped
\* outward and the depth recorded), what This.resolve and Super.resolve met
\* ("this", "super": current_class and whether the error was reported) and what
\* Class.resolve left behind ("class": current_class on entry and on exit), and
\* the calls of begin_scope and end_scope ("begin", "end": the number of scopes
\* on the stack before the call).
ResolverEvent(op, id, name, distance, depth, class, after, error) ==
    [op |-> op, id |-> id, name |-> name, distance |-> distance, depth |-> depth,
     class |-> class, after |-> after, error |-> error]

Traced(rs, event) == [rs EXCEPT !.trace = Append(@, event)]

\* the trace entry of a begin_scope or an end_scope: the number of scopes on
\* the stack when it was called
ScopeEvent(op, rs) == ResolverEvent(op, 0, "", 0, Len(rs.scopes), "", "", FALSE)

begin_scope(rs) ==
    Traced([rs EXCEPT !.scopes = Append(@, [n \in {} |-> FALSE])], ScopeEvent("begin", rs))

end_scope(rs) ==
    Traced([rs EXCEPT !.scopes = SubSeq(@, 1, Len(@) - 1)], ScopeEvent("end", rs))

\* Lox.error_token, as seen from the resolver
ReportError(rs, message) == [rs EXCEPT !.errors = Append(@, message)]

\* scopes[-1][name] = value
SetInnermost(rs, name, value) ==
    [rs EXCEPT !.scopes[Len(rs.scopes)] = (name :> value) @@ @]

declare(rs, name) ==
    IF Len(rs.scopes) = 0 THEN rs
    ELSE IF name \in DOMAIN rs.scopes[Len(rs.scopes)]
         THEN ReportError(rs, "Already a variable with this name in this scope.")
         ELSE SetInnermost(rs, name, FALSE)

resolver_define(rs, name) ==
    IF Len(rs.scopes) = 0 THEN rs ELSE SetInnermost(rs, name, TRUE)

\* the depth resolve_local records for a name found `distance` scopes out from
\* the innermost of `n` scopes
RecordedDepth(n, distance) == n - 1 - distance

\* Resolver.resolve_local: enumerate(reversed(scopes)) meets the innermost
\* scope first, at distance 0.
resolve_local(rs, id, name) ==
    LET n == Len(rs.scopes)
        holding == {i \in 1..n : name \in DOMAIN rs.scopes[i]}
    IN  IF holding = {} THEN rs
        ELSE LET i == CHOOSE j \in holding : \A h \in holding : h <= j
                 distance == n - i
             IN  Traced([rs EXCEPT !.locals = (id :> RecordedDepth(n, distance)) @@ @],
                        ResolverEvent("local", id, name, distance,
                                      RecordedDepth(n, distance), rs.current_class,
                                      rs.current_class, FALSE))

\* every resolve method pairs its begin_scope with an end_scope: the resolver r1
\* it leaves has as many scopes as the resolver rs it was handed
ScopesBalanced(rs, r1) == Len(rs.scopes) = Len(r1.scopes)

\* This.resolve: the error it reports for the current class, "" for none
ThisError(current_class) ==
    IF current_class = "NONE" THEN "Can't use 'this' outside of a class." ELSE ""

SuperError_outside_only(current_class) ==
    IF current_class = "NONE" THEN "Can't use 'super' outside of a class." ELSE ""

\* Super.resolve: the error it reports for the current class, "" for none
SuperError(current_class) ==
    IF current_class = "NONE" THEN "Can't use 'super' outside of a class."
    ELSE IF current_class # "SUBCLASS"
    THEN "Can't use 'super' in a class with not superclass."
    ELSE ""

\* the resolver after the check of This.resolve or Super.resolve
KeywordChecked(rs, op, id, message) ==
    Traced(IF message # "" THEN ReportError(rs, message) ELSE rs,
           ResolverEvent(op, id, op, 0, 0, rs.current_class, rs.current_class, message # ""))

RECURSIVE ResolveExpr(_, _)
RECURSIVE ResolveExprs(_, _)
RECURSIVE ResolveStmt(_, _)
RECURSIVE ResolveStmts(_, _)
RECURSIVE resolve_function(_, _, _)
RECURSIVE ResolveMethods(_, _)
RECURSIVE DeclareParams(_, _)

\* for argument in arguments: argument.resolve(resolver)
ResolveExprs(exprs, rs) ==
    IF Len(exprs) = 0 THEN rs
    ELSE LET r1 == ResolveExpr(Head(exprs), rs)
         IN  CASE ScopesBalanced(rs, r1) -> ResolveExprs(Tail(exprs), r1)

\* Expr.resolve, one case per node class
ResolveExpr(e, rs) ==
    CASE e.k = "Literal" -> rs
      [] e.k = "Grouping" -> ResolveExpr(e.expression, rs)
      [] e.k = "Unary" -> ResolveExpr(e.right, rs)
      [] e.k \in {"Binary", "Logical"} -> ResolveExpr(e.right, ResolveExpr(e.left, rs))
      [] e.k = "Variable" ->
            LET n == Len(rs.scopes)
                r1 == IF /\ n > 0
                         /\ e.name \in DOMAIN rs.scopes[n]
                         /\ ~rs.scopes[n][e.name]
                      THEN ReportError(rs, "Can't read local variable in it's own initializer.")
                      ELSE rs
            IN  resolve_local(r1, e.id, e.name)
      [] e.k = "Assign" -> resolve_local(ResolveExpr(e.value, rs), e.id, e.name)
      [] e.k = "Call" -> ResolveExprs(e.arguments, ResolveExpr(e.callee, rs))
      [] e.k = "Get" -> ResolveExpr(e.object, rs)
      [] e.k = "Set" -> ResolveExpr(e.object, ResolveExpr(e.value, rs))
      [] e.k = "This" ->
            LET r1 == KeywordChecked(rs, "this", e.id, ThisError(rs.current_class))
            IN  IF ThisError(rs.current_class) # "" THEN r1
                ELSE resolve_local(r1, e.id, "this")
      [] e.k = "Super" ->
            resolve_local(KeywordChecked(rs, "super", e.id, SuperError(rs.current_class)),
                          e.id, "super")

\* for statement in statements: statement.resolve(resolver)
ResolveStmts(stmts, rs) ==
    IF Len(stmts) = 0 THEN rs
    ELSE LET r1 == ResolveStmt(Head(stmts), rs)
         IN  CASE ScopesBalanced(rs, r1) -> ResolveStmts(Tail(stmts), r1)

\* for param in self.params: declare, define
DeclareParams(params, rs) ==
    IF Len(params) = 0 THEN rs
    ELSE LET r1 == resolver_define(declare(rs, Head(params)), Head(params))
         IN  CASE ScopesBalanced(rs, r1) -> DeclareParams(Tail(params), r1)

\* a resolve_function that leaves current_function at the type of the function
resolve_function_without_restore(fn, rs, function_type) ==
    LET r1 == begin_scope([rs EXCEPT !.current_function = function_type])
        r2 == DeclareParams(fn.params, r1)
    IN  end_scope(ResolveStmts(fn.body, r2))

\* Function.resolve_function
resolve_function(fn, rs, function_type) ==
    LET enclosing_function == rs.current_function
        r1 == begin_scope([rs EXCEPT !.current_function = function_type])
        r2 == DeclareParams(fn.params, r1)
        r3 == end_scope(ResolveStmts(fn.body, r2))
    IN  [r3 EXCEPT !.current_function = enclosing_function]

\* the loop over self.methods in Class.resolve
ResolveMethods(methods, rs) ==
    IF Len(methods) = 0 THEN rs
    ELSE LET method == Head(methods)
             declaration == IF method.name = "init" THEN "INITIALIZER" ELSE "METHOD"
             r1 == resolve_function(method, rs, declaration)
         IN  CASE ScopesBalanced(rs, r1) -> ResolveMethods(Tail(methods), r1)

\* Stmt.resolve, one case per node class
ResolveStmt(st, rs) ==
    CASE st.k \in {"Print", "Expression"} -> ResolveExpr(st.expression, rs)
      [] st.k = "Var" ->
            LET r1 == declare(rs, st.name)
                r2 == IF st.initializer.k # "None" THEN ResolveExpr(st.initializer, r1) ELSE r1
            IN  resolver_define(r2, st.name)
      [] st.k = "Block" -> end_scope(ResolveStmts(st.statements, begin_scope(rs)))
      [] st.k = "If" ->
            LET r1 == ResolveStmt(st.then_branch, ResolveExpr(st.condition, rs))
            IN  IF st.else_branch.k # "None" THEN ResolveStmt(st.else_branch, r1) ELSE r1
      [] st.k = "While" -> ResolveStmt(st.body, ResolveExpr(st.condition, rs))
      [] st.k = "Function" ->
            resolve_function(st, resolver_define(declare(rs, st.name), st.name), "FUNCTION")
      [] st.k = "Return" ->
            LET r1 == IF rs.current_function = "NONE"
                      THEN ReportError(rs, "Can't return from outside function.")
                      ELSE rs
            IN  IF st.value.k # "None"
                THEN LET r2 == IF r1.current_function = "INITIALIZER"
                               THEN ReportError(r1, "Can't return a value from an initializer.")
                               ELSE r1
                     IN  ResolveExpr(st.value, r2)
                ELSE r1
      [] st.k = "Class" ->
            LET enclosing_class == rs.current_class
                r1 == resolver_define(declare([rs EXCEPT !.current_class = "CLASS"], st.name),
                                      st.name)
                r2 == IF st.superclass.k # "None" /\ st.name = st.superclass.name
                      THEN ReportError(r1, "A class cannot inherit from itself.")
                      ELSE r1
                r3 == IF st.superclass.k # "None"
                      THEN ResolveExpr(st.superclass, [r2 EXCEPT !.current_class = "SUBCLASS"])
                      ELSE r2
                r4 == IF st.superclass.k # "None"
                      THEN SetInnermost(begin_scope(r3), "super", TRUE)
                      ELSE r3
                r5 == SetInnermost(begin_scope(r4), "this", TRUE)
                r6 == end_scope(ResolveMethods(st.methods, r5))
                r7 == IF st.superclass.k # "None" THEN end_scope(r6) ELSE r6
                r8 == [r7 EXCEPT !.current_class = enclosing_class]
            IN  Traced(r8, ResolverEvent("class", 0, st.name, 0, 0, enclosing_class,
                                         r8.current_class, FALSE))

(***************************************************************************)
(* Runtime objects: LoxClass, LoxInstance, LoxFunction.                    *)
(***************************************************************************)
\* a new object identity
FreshOid(s) == s.next_oid
TakeOid(s) == [s EXCEPT !.next_oid = @ + 1]

RECURSIVE find_method(_, _)
\* LoxClass.find_method; Nil is Python None
find_method(class, name) ==
    IF name \in DOMAIN class.methods THEN class.methods[name]
    ELSE IF class.superclass.tag # "nil" THEN find_method(class.superclass, name)
    ELSE Nil

\* LoxFunction.arity
LoxFunction_arity(function) == Len(function.declaration.params)

LoxClass_arity_own_only(class) ==
    IF "init" \in DOMAIN class.methods THEN LoxFunction_arity(class.methods["init"]) ELSE 0

\* LoxClass.arity
LoxClass_arity(class) ==
    LET initializer == find_method(class, "init")
    IN  IF initializer.tag # "nil" THEN LoxFunction_arity(initializer) ELSE 0

\* the number of parameters a LoxCallable declares (Clock.arity is 0)
DeclaredArity(function) ==
    CASE function.tag = "fun" -> LoxFunction_arity(function)
      [] function.tag = "class" -> LoxClass_arity(function)
      [] OTHER -> 0

\* raise LoxRuntimeError(paren, "Expected ... arguments, but got ...")
RaiseArity(s, function, n) ==
    [s |-> s,
     ex |-> [Exc("LoxRuntimeError", "Expected arguments") EXCEPT
                !.arity = DeclaredArity(function), !.got = n],
     v |-> Nil]

\* LoxFunction.bind
bind(s, function, instance) ==
    LET s1 == Environment_new(s, function.closure)
        environment == NewestEnv(s1)
        s2 == define(s1, environment, "this", instance)
    IN  Ok(TakeOid(s2),
           FunV(FreshOid(s2), function.declaration, environment, function.is_initializer))

\* LoxInstance(_class): the new object is the last of the heap
LoxInstance_new(s, class) ==
    [s EXCEPT !.instances = Append(@, [class |-> class, fields |-> EmptyDict])]

\* LoxInstance.get
LoxInstance_get(s, instance, name) ==
    LET obj == s.instances[instance.id]
        method == find_method(obj.class, name)
    IN  IF name \in DOMAIN obj.fields THEN Ok(s, obj.fields[name])
        ELSE IF method.tag # "nil" THEN bind(s, method, instance)
        ELSE Raise(s, "RuntimeError", "Undefined property")

\* LoxInstance.set
LoxInstance_set(s, instance, name, value) ==
    [s EXCEPT !.instances[instance.id].fields = (name :> value) @@ @]

\* `len(arguments) != function.arity` in Call.evaluate: arity is not called, so
\* an int is compared with a bound method object, and the two are never equal.
ArityDiffers(n, function) == TRUE

\* `isinstance(_object, LoxInstance)` in Get.evaluate and Set.evaluate: _expr.py
\* imports the name LoxInstance under TYPE_CHECKING only, so at run time the
\* name is undefined and evaluating it raises NameError.
ExprModuleDefinesLoxInstance == FALSE

(***************************************************************************)
(* Evaluation of expressions and statements.                               *)
(***************************************************************************)
RECURSIVE Evaluate(_, _)
RECURSIVE EvaluateArguments(_, _, _)
RECURSIVE Execute(_, _)
RECURSIVE ExecuteStatements(_, _)
RECURSIVE execute_block(_, _, _)
RECURSIVE WhileLoop(_, _)
RECURSIVE LoxFunction_call(_, _, _)
RECURSIVE LoxClass_call(_, _, _)
RECURSIVE DefineParams(_, _, _, _)
RECURSIVE BuildMethods(_, _, _)

\* Variable.lookup_variable
lookup_variable(s, name, id) ==
    IF id \in DOMAIN s.locals
    THEN get_at(s, s.environment, s.locals[id], name)
    ELSE get(s, GlobalsEnv, name)

\* Binary.check_number_operands
check_number_operands(left, right) == left.tag = "num" /\ right.tag = "num"

\* Unary.check_number_operand
check_number_operand(operand) == operand.tag = "num"

\* the match statement of Binary.evaluate, operands already evaluated
BinaryOp(s, operator, left, right) ==
    CASE operator \in {">", ">=", "<", "<=", "-", "*", "/"} ->
            IF ~check_number_operands(left, right)
            THEN Raise(s, "RuntimeError", "operands must be numbers")
            ELSE (CASE operator = ">" -> Ok(s, Bool(left.v > right.v))
                    [] operator = ">=" -> Ok(s, Bool(left.v >= right.v))
                    [] operator = "<" -> Ok(s, Bool(left.v < right.v))
                    [] operator = "<=" -> Ok(s, Bool(left.v <= right.v))
                    [] operator = "-" -> Ok(s, Num(left.v - right.v))
                    [] operator = "*" -> Ok(s, Num(left.v * right.v))
                    [] OTHER ->
                         \* "/": float division; the sources keep the quotient whole
                         IF right.v = 0
                         THEN Raise(s, "ZeroDivisionError", "float division by zero")
                         ELSE Ok(s, Num(left.v \div right.v)))
      [] operator = "!=" -> Ok(s, Bool(~lox_eq(left, right)))
      [] operator = "==" -> Ok(s, Bool(lox_eq(left, right)))
      [] operator = "+" ->
            IF left.tag = "num" /\ right.tag = "num" THEN Ok(s, Num(left.v + right.v))
            ELSE IF left.tag = "str" /\ right.tag = "str" THEN Ok(s, Str(left.v \o right.v))
            ELSE Raise(s, "RuntimeError", "operarands must both be strs or numbers")
      [] OTHER -> Ok(s, Nil)

\* function.call(interpreter, arguments) on a LoxCallable
Callable_call(s, function, arguments) ==
    CASE function.tag = "fun" -> LoxFunction_call(s, function, arguments)
      [] function.tag = "class" -> LoxClass_call(s, function, arguments)
      [] OTHER -> Raise(s, "TypeError", "call() takes 1 positional argument")   \* Clock.call(self) takes no arguments

\* an exception raised while r was computed propagates; otherwise the code
\* after it, K, runs on the result
Then(r, K(_)) == IF Raised(r) THEN r ELSE K(r)

\* the loop over self.arguments in Call.evaluate; acc holds the values so far
EvaluateArguments(exprs, s, acc) ==
    IF Len(exprs) = 0 THEN Ok(s, acc)
    ELSE Then(Evaluate(Head(exprs), s),
              LAMBDA r : EvaluateArguments(Tail(exprs), r.s, Append(acc, r.v)))

\* Expr.evaluate, one case per node class
Evaluate(e, s) ==
    CASE e.k = "Literal" -> Ok(s, e.value)
      [] e.k = "Grouping" -> Evaluate(e.expression, s)
      [] e.k = "Unary" ->
            Then(Evaluate(e.right, s), LAMBDA r :
                IF e.operator = "-"
                THEN IF check_number_operand(r.v) THEN Ok(r.s, Num(0 - r.v.v))
                     ELSE Raise(r.s, "RuntimeError", "operand must be a number")
                ELSE IF e.operator = "!" THEN Ok(r.s, Bool(~is_truthy(r.v)))
                ELSE Raise(r.s, "LoxRuntimeError", "Unexpected unary operator."))
      [] e.k = "Binary" ->
            Then(Evaluate(e.left, s), LAMBDA l :
                Then(Evaluate(e.right, l.s), LAMBDA r :
                    BinaryOp(r.s, e.operator, l.v, r.v)))
      [] e.k = "Variable" -> lookup_variable(s, e.name, e.id)
      [] e.k = "This" -> lookup_variable(s, "this", e.id)
      [] e.k = "Assign" ->
            \* interpreter.locals.get(self.value): the key is the value expression
            Then(Evaluate(e.value, s), LAMBDA r :
                Then(IF NodeId(e.value) \in DOMAIN r.s.locals
                     THEN assign_at(r.s, r.s.environment, r.s.locals[NodeId(e.value)],
                                    e.name, r.v)
                     ELSE assign(r.s, GlobalsEnv, e.name, r.v),
                     LAMBDA w : Ok(w.s, r.v)))
      [] e.k = "Logical" ->
            Then(Evaluate(e.left, s), LAMBDA l :
                IF e.operator = "or" /\ is_truthy_of_node(e.left) THEN l
                ELSE IF e.operator # "or" /\ ~is_truthy_of_node(e.left) THEN l
                ELSE Evaluate(e.right, l.s))
      [] e.k = "Call" ->
            Then(Evaluate(e.callee, s), LAMBDA c :
                Then(EvaluateArguments(e.arguments, c.s, <<>>), LAMBDA a :
                    IF ~IsLoxCallable(c.v)
                    THEN Raise(a.s, "LoxRuntimeError", "Can only call functions and classes.")
                    ELSE IF ArityDiffers(Len(a.v), c.v) THEN RaiseArity(a.s, c.v, Len(a.v))
                    ELSE Callable_call(a.s, c.v, a.v)))
      [] e.k = "Get" ->
            Then(Evaluate(e.object, s), LAMBDA o :
                IF ~ExprModuleDefinesLoxInstance
                THEN Raise(o.s, "NameError", "name LoxInstance is not defined")
                ELSE IF o.v.tag = "inst" THEN LoxInstance_get(o.s, o.v, e.name)
                ELSE Raise(o.s, "LoxRuntimeError", "Only instances have properties."))
      [] e.k = "Set" ->
            Then(Evaluate(e.object, s), LAMBDA o :
                IF ~ExprModuleDefinesLoxInstance
                THEN Raise(o.s, "NameError", "name LoxInstance is not defined")
                ELSE IF o.v.tag # "inst"
                THEN Raise(o.s, "RuntimeError", "Only instances have fields.")
                ELSE Then(Evaluate(e.value, o.s), LAMBDA r :
                        \* value.set(self.name, value): set is called on the value
                        IF r.v.tag # "inst" THEN Raise(r.s, "AttributeError", "no attribute set")
                        ELSE Ok(LoxInstance_set(r.s, r.v, e.name, r.v), r.v)))
      [] e.k = "Super" ->
            IF e.id \notin DOMAIN s.locals
            THEN Raise(s, "LoxRuntimeError", "Cannot determine distance to expr.")
            ELSE Then(get_at(s, s.environment, s.locals[e.id], "super"), LAMBDA superclass :
                    Then(get_at(s, s.environment, s.locals[e.id] - 1, "this"), LAMBDA object :
                        IF superclass.v.tag # "class"
                        THEN Raise(s, "AttributeError", "no attribute find_method")
                        ELSE IF find_method(superclass.v, e.method).tag = "nil"
                        THEN Raise(s, "LoxRuntimeError", "Undefined property")
                        ELSE bind(s, find_method(superclass.v, e.method), object.v)))

\* for statement in statements: statement.evaluate()
ExecuteStatements(stmts, s) ==
    IF Len(stmts) = 0 THEN Ok(s, Nil)
    ELSE Then(Execute(Head(stmts), s), LAMBDA r : ExecuteStatements(Tail(stmts), r.s))

\* a block that restores the environment only when its statements complete
execute_block_without_finally(stmts, s, environment) ==
    LET r == ExecuteStatements(stmts, [s EXCEPT !.environment = environment])
    IN  IF Raised(r) THEN r ELSE [r EXCEPT !.s.environment = s.environment]

\* Block.execute_block: the finally clause restores the environment on every exit
execute_block(stmts, s, environment) ==
    [ExecuteStatements(stmts, [s EXCEPT !.environment = environment])
        EXCEPT !.s.environment = s.environment]

\* While.evaluate
WhileLoop(st, s) ==
    Then(Evaluate(st.condition, s), LAMBDA c :
        IF ~is_truthy(c.v) THEN Ok(c.s, Nil)
        ELSE Then(Execute(st.body, c.s), LAMBDA b : WhileLoop(st, b.s)))

\* for parameter, argument in zip(params, arguments): environment.define(...)
DefineParams(s, environment, params, arguments) ==
    IF Len(params) = 0 \/ Len(arguments) = 0 THEN s
    ELSE DefineParams(define(s, environment, Head(params), Head(arguments)),
                      environment, Tail(params), Tail(arguments))

\* environment = Environment(self.closure), with the parameters defined in it
CallEnvironment(s, function, arguments) ==
    LET s1 == Environment_new(s, function.closure)
    IN  DefineParams(s1, NewestEnv(s1), function.declaration.params, arguments)

InitializerResult_returned_value(s, function) == Ok(s, Nil)

\* the value an initializer returns: self.closure.get_at(0, "this")
InitializerResult(s, function) == get_at(s, function.closure, 0, "this")

\* what LoxFunction.call makes of the outcome r of execute_block: the except
\* clause for FakeReturnError and the statements after the try
FunctionReturn(function, r) ==
    IF r.ex.kind = "FakeReturnError"
    THEN IF function.is_initializer THEN InitializerResult(r.s, function)
         ELSE Ok(r.s, r.ex.value)
    ELSE IF Raised(r) THEN r
    ELSE IF function.is_initializer THEN InitializerResult(r.s, function)
    ELSE Ok(r.s, Nil)

\* LoxFunction.call
LoxFunction_call(s, function, arguments) ==
    LET s2 == CallEnvironment(s, function, arguments)
    IN  FunctionReturn(function, execute_block(function.declaration.body, s2, NewestEnv(s2)))

\* LoxClass.call
LoxClass_call(s, class, arguments) ==
    LET s1 == LoxInstance_new(s, class)
        instance == InstV(Len(s.instances) + 1)
    IN  IF find_method(class, "init").tag # "nil"
        THEN Then(bind(s1, find_method(class, "init"), instance), LAMBDA b :
                Then(LoxFunction_call(b.s, b.v, arguments), LAMBDA r : Ok(r.s, instance)))
        ELSE Ok(s1, instance)

\* the loop over self.methods in Class.evaluate; r.v is the methods dict
BuildMethods(methods, s, acc) ==
    IF Len(methods) = 0 THEN Ok(s, acc)
    ELSE BuildMethods(Tail(methods), TakeOid(s),
                      (Head(methods).name :>
                          FunV(FreshOid(s), Head(methods), s.environment,
                               Head(methods).name = "init")) @@ acc)

\* Class.evaluate, `if self.superclass is not None`: a new environment that
\* holds "super" becomes the current one
SuperEnvironment(s, superclass) ==
    IF superclass.tag = "nil" THEN s
    ELSE LET n == Environment_new(s, s.environment)
         IN  define([n EXCEPT !.environment = NewestEnv(n)], NewestEnv(n), "super", superclass)

\* Class.evaluate after the loop over the methods: m.v is the methods dict
FinishClass(st, m, superclass) ==
    LET class == ClassV(FreshOid(m.s), st.name, superclass, m.v)
        s3 == TakeOid(m.s)
        s4 == IF superclass.tag # "nil"
              THEN [s3 EXCEPT !.environment = s3.envs[s3.environment].enclosing]
              ELSE s3
    IN  assign(s4, s4.environment, st.name, class)

\* Stmt.evaluate, one case per node class
Execute(st, s) ==
    CASE st.k = "Print" ->
            Then(Evaluate(st.expression, s), LAMBDA r :
                Ok([r.s EXCEPT !.out = Append(@, stringify(r.v, r.s.instances))], Nil))
      [] st.k = "Expression" ->
            Then(Evaluate(st.expression, s), LAMBDA r : Ok(r.s, Nil))
      [] st.k = "Var" ->
            Then(IF st.initializer.k # "None" THEN Evaluate(st.initializer, s) ELSE Ok(s, Nil),
                 LAMBDA r : Ok(define(r.s, r.s.environment, st.name, r.v), Nil))
      [] st.k = "Block" ->
            LET s1 == Environment_new(s, s.environment)
            IN  execute_block(st.statements, s1, NewestEnv(s1))
      [] st.k = "If" ->
            Then(Evaluate(st.condition, s), LAMBDA c :
                IF is_truthy(c.v) THEN Execute(st.then_branch, c.s)
                ELSE IF st.else_branch.k # "None" THEN Execute(st.else_branch, c.s)
                ELSE Ok(c.s, Nil))
      [] st.k = "While" -> WhileLoop(st, s)
      [] st.k = "Function" ->
            Ok(define(TakeOid(s), s.environment, st.name,
                      FunV(FreshOid(s), st, s.environment, FALSE)), Nil)
      [] st.k = "Return" ->
            Then(IF st.value.k # "None" THEN Evaluate(st.value, s) ELSE Ok(s, Nil),
                 LAMBDA r : RaiseReturn(r.s, r.v))
      [] st.k = "Class" ->
            Then(IF st.superclass.k # "None" THEN Evaluate(st.superclass, s) ELSE Ok(s, Nil),
                 LAMBDA sc :
                    IF st.superclass.k # "None" /\ sc.v.tag # "class"
                    THEN Raise(sc.s, "LoxRuntimeError", "Superclass must be a class")
                    ELSE FinishClass(st,
                            BuildMethods(st.methods,
                                SuperEnvironment(define(sc.s, sc.s.environment, st.name, Nil),
                                                 sc.v),
                                EmptyDict),
                            sc.v))

(***************************************************************************)
(* Tokens and the scanner.  A source text is a sequence of one-character   *)
(* strings; positions are counted from 0 as in Python.                     *)
(***************************************************************************)
\* class TokenType(Enum): the value of every member
TokenTypeValues ==
    "LEFT_PAREN" :> "(" @@ "RIGHT_PAREN" :> ")" @@ "LEFT_BRACE" :> "{" @@
    "RIGHT_BRACE" :> "}" @@ "COMMA" :> "," @@ "DOT" :> "." @@ "MINUS" :> "-" @@
    "PLUS" :> "+" @@ "SEMICOLON" :> ";" @@ "SLASH" :> "/" @@ "STAR" :> "*" @@
    "BANG" :> "!" @@ "BANG_EQUAL" :> "!=" @@ "EQUAL" :> "=" @@ "EQUAL_EQUAL" :> "==" @@
    "GREATER" :> ">" @@ "GREATER_EQUAL" :> ">=" @@ "LESS" :> "<" @@
    "LESS_EQUAL" :> "<=" @@ "AND" :> "and" @@ "CLASS" :> "class" @@ "ELSE" :> "else" @@
    "FALSE" :> "false" @@ "FUN" :> "fun" @@ "FOR" :> "for" @@ "IF" :> "if" @@
    "NIL" :> "nil" @@ "OR" :> "or" @@ "PRINT" :> "print" @@ "RETURN" :> "return" @@
    "SUPER" :> "super" @@ "THIS" :> "this" @@ "TRUE" :> "true" @@ "VAR" :> "var" @@
    "WHILE" :> "while" @@ "IDENTIFIER" :> "identifier" @@ "STRING" :> "string" @@
    "NUMBER" :> "number" @@ "EOF" :> "eof"

\* TokenType(value): the member with that value; "ValueError" when there is none
TokenType(value) ==
    IF \E m \in DOMAIN TokenTypeValues : TokenTypeValues[m] = value
    THEN CHOOSE m \in DOMAIN TokenTypeValues : TokenTypeValues[m] = value
    ELSE "ValueError"

Token(type, lexeme, literal, line) ==
    [type |-> type, lexeme |-> lexeme, literal |-> literal, line |-> line]

\* literal = None, the default of add_token
NoLiteral == Nil

DIGITS == {"0", "1", "2", "3", "4", "5", "6", "7", "8", "9"}

LETTERS ==
    {"a", "b", "c", "d", "e", "f", "g", "h", "i", "j", "k", "l", "m", "n", "o", "p",
     "q", "r", "s", "t", "u", "v", "w", "x", "y", "z", "A", "B", "C", "D", "E", "F",
     "G", "H", "I", "J", "K", "L", "M", "N", "O", "P", "Q", "R", "S", "T", "U", "V",
     "W", "X", "Y", "Z", "_"}

\* the character "\0" that peek returns at the end of the source
NUL == "NUL"

Scanner_new(text) ==
    [source |-> text, start |-> 0, current |-> 0, line |-> 1, tokens |-> <<>>,
     errors |-> <<>>]

\* Lox.report as called by Lox.error and Lox.error_token
ErrorReport(line, where, message) == [line |-> line, where |-> where, message |-> message]

isAtEnd(sc) == sc.current >= Len(sc.source)

peek(sc) == IF isAtEnd(sc) THEN NUL ELSE sc.source[sc.current + 1]

peek_next(sc) ==
    IF sc.current + 1 >= Len(sc.source) THEN NUL ELSE sc.source[sc.current + 2]

advance(sc) == [sc EXCEPT !.current = @ + 1]

\* Scanner.match: whether the next character is the expected one
Matches(sc, expected) == ~isAtEnd(sc) /\ sc.source[sc.current + 1] = expected

RECURSIVE Slice(_, _, _)
\* source[first:stop] as a string
Slice(text, first, stop) ==
    IF first >= stop \/ first >= Len(text) THEN ""
    ELSE text[first + 1] \o Slice(text, first + 1, stop)

add_token(sc, type, literal) ==
    [sc EXCEPT !.tokens =
        Append(@, Token(type, Slice(sc.source, sc.start, sc.current), literal, sc.line))]

\* add_token(two if self.match("=") else one)
add_one_or_two(sc, one, two) ==
    IF Matches(sc, "=") THEN add_token(advance(sc), two, NoLiteral)
    ELSE add_token(sc, one, NoLiteral)

is_digit(c) == c \in DIGITS

is_alpha(c) == c \in LETTERS

is_alpha_numeric(c) == is_digit(c) \/ is_alpha(c)

RECURSIVE line_comment(_)
\* while self.peek() != "\n" and not self.isAtEnd(): self.advance()
line_comment(sc) ==
    IF peek(sc) # "\n" /\ ~isAtEnd(sc) THEN line_comment(advance(sc)) ELSE sc

RECURSIVE identifier_loop(_)
identifier_loop(sc) ==
    IF is_alpha_numeric(peek(sc)) THEN identifier_loop(advance(sc)) ELSE sc

\* the `except ValueError` of Scanner.identifier
TokenTypeOfWord(word) ==
    IF TokenType(word) = "ValueError" THEN "IDENTIFIER" ELSE TokenType(word)

identifier(sc) ==
    LET s1 == identifier_loop(sc)
    IN  add_token(s1, TokenTypeOfWord(Slice(s1.source, s1.start, s1.current)), NoLiteral)

RECURSIVE string_loop(_)
string_loop(sc) ==
    IF peek(sc) # "\"" /\ ~isAtEnd(sc)
    THEN string_loop(advance(IF peek(sc) = "\n" THEN [sc EXCEPT !.line = @ + 1] ELSE sc))
    ELSE sc

\* the line of the opening quote: the scanner's line less the newlines of the lexeme
UnterminatedLine_of_opening(sc) ==
    sc.line - Cardinality({i \in (sc.start + 1)..sc.current : sc.source[i] = "\n"})

\* the line Scanner.string hands to Lox.error for an unterminated string
UnterminatedLine(sc) == sc.line

string(sc) ==
    LET s1 == string_loop(sc)
    IN  IF isAtEnd(s1)
        THEN [s1 EXCEPT !.errors =
                 Append(@, ErrorReport(UnterminatedLine(s1), "", "Unterminated string"))]
        ELSE LET s2 == advance(s1)
             IN  add_token(s2, "STRING", Str(Slice(s2.source, s2.start + 1, s2.current - 1)))

RECURSIVE digits_loop(_)
digits_loop(sc) == IF is_digit(peek(sc)) THEN digits_loop(advance(sc)) ELSE sc

DigitValue ==
    "0" :> 0 @@ "1" :> 1 @@ "2" :> 2 @@ "3" :> 3 @@ "4" :> 4 @@ "5" :> 5 @@ "6" :> 6
    @@ "7" :> 7 @@ "8" :> 8 @@ "9" :> 9

RECURSIVE DecimalValue(_, _, _, _)
\* the integer written by the digits text[first:stop], after the digits read so far
DecimalValue(text, first, stop, acc) ==
    IF first >= stop THEN acc
    ELSE DecimalValue(text, first + 1, stop, 10 * acc + DigitValue[text[first + 1]])

RECURSIVE FractionEnd(_, _, _)
\* the end of the fraction digits text[first:stop] without its trailing zeros
FractionEnd(text, first, stop) ==
    IF stop > first /\ text[stop] = "0" THEN FractionEnd(text, first, stop - 1) ELSE stop

\* float(source[start:current]): an integer when the text has no fraction or
\* a fraction of zeros; otherwise the integer part and the fraction digits
float(text, first, stop) ==
    LET dots == {i \in first..(stop - 1) : text[i + 1] = "."}
    IN  IF dots = {} THEN Num(DecimalValue(text, first, stop, 0))
        ELSE LET dot == CHOOSE i \in dots : TRUE
                 cut == FractionEnd(text, dot + 1, stop)
             IN  IF cut = dot + 1 THEN Num(DecimalValue(text, first, dot, 0))
                 ELSE Num([int |-> DecimalValue(text, first, dot, 0),
                           frac |-> Slice(text, dot + 1, cut)])

number(sc) ==
    LET s1 == digits_loop(sc)
        s2 == IF peek(s1) = "." /\ is_digit(peek_next(s1))
              THEN digits_loop(advance(s1))
              ELSE s1
    IN  add_token(s2, "NUMBER", float(s2.source, s2.start, s2.current))

\* the single-character tokens of scan_token
SingleCharacterTokens == {"(", ")", "{", "}", ",", ".", "-", "+", ";", "*"}

\* Scanner.scan_token, entered with start = current
scan_token(sc0) ==
    LET char == sc0.source[sc0.current + 1]
        sc == advance(sc0)
    IN  CASE char \in SingleCharacterTokens -> add_token(sc, TokenType(char), NoLiteral)
          [] char = "!" -> add_one_or_two(sc, "BANG", "BANG_EQUAL")
          [] char = "=" -> add_one_or_two(sc, "EQUAL", "EQUAL_EQUAL")
          [] char = "<" -> add_one_or_two(sc, "LESS", "LESS_EQUAL")
          [] char = ">" -> add_one_or_two(sc, "GREATER", "GREATER_EQUAL")
          [] char = "/" ->
                IF Matches(sc, "/") THEN line_comment(advance(sc))
                ELSE add_token(sc, "SLASH", NoLiteral)
          [] char \in {" ", "\r", "\t"} -> sc
          [] char = "\n" -> [sc EXCEPT !.line = @ + 1]
          [] char = "\"" -> string(sc)
          [] OTHER ->
                IF is_digit(char) THEN number(sc)
                ELSE IF is_alpha(char) THEN identifier(sc)
                ELSE [sc EXCEPT !.errors =
                         Append(@, ErrorReport(sc.line, "", "Unexpected character"))]

\* the stop statements of scan_tokens: the EOF token
append_eof(sc) == [sc EXCEPT !.tokens = Append(@, Token("EOF", "", NoLiteral, sc.line))]

(***************************************************************************)
(* The parser.  p is the Parser object with the errors it reports through  *)
(* Lox.error_token; a parse result holds the parser, the node (or token)   *)
(* returned and whether ParseError is propagating.  A Variable, Assign,    *)
(* This or Super node gets as identity the position of its name token.     *)
(***************************************************************************)
Parser_new(tokens) == [tokens |-> tokens, current |-> 0, errors |-> <<>>]

Parsed(p, node) == [p |-> p, node |-> node, raised |-> FALSE]

RaiseParseError(p) == [p |-> p, node |-> NoNode, raised |-> TRUE]

\* ParseError propagates past the code K that follows the call that raised it
ThenParse(r, K(_)) == IF r.raised THEN r ELSE K(r)

Parser_peek(p) == p.tokens[p.current + 1]

\* self.tokens[self.current - 1]; index -1 is the last token
previous(p) == IF p.current = 0 THEN p.tokens[Len(p.tokens)] ELSE p.tokens[p.current]

is_at_end(p) == Parser_peek(p).type = "EOF"

check(p, token_type) == ~is_at_end(p) /\ Parser_peek(p).type = token_type

Parser_advance(p) == IF ~is_at_end(p) THEN [p EXCEPT !.current = @ + 1] ELSE p

\* Parser.match: whether one of the token types is next; the caller advances
match(p, token_types) == \E token_type \in token_types : check(p, token_type)

\* Lox.error_token
error_token(token, message) ==
    IF token.type = "EOF" THEN ErrorReport(token.line, " at end ", message)
    ELSE ErrorReport(token.line, " at '" \o token.lexeme \o "' ", message)

\* Parser.error
Parser_error(p, token, message) ==
    [p EXCEPT !.errors = Append(@, error_token(token, message))]

consume(p, token_type, message) ==
    IF check(p, token_type) THEN Parsed(Parser_advance(p), previous(Parser_advance(p)))
    ELSE RaiseParseError(Parser_error(p, Parser_peek(p), message))

SynchronizeStops ==
    {"CLASS", "FUN", "VAR", "FOR", "IF", "WHILE", "PRINT", "RETURN"}

RECURSIVE synchronize_loop(_)
\* a loop of synchronize that discards every token up to the first EOF
synchronize_to_end(p) ==
    [p EXCEPT !.current =
        CHOOSE i \in p.current..(Len(p.tokens) - 1) :
            /\ p.tokens[i + 1].type = "EOF"
            /\ \A j \in p.current..(i - 1) : p.tokens[j + 1].type # "EOF"]

synchronize_loop(p) ==
    IF is_at_end(p) THEN p
    ELSE IF previous(p).type = "SEMICOLON" THEN p
    ELSE IF Parser_peek(p).type \in SynchronizeStops THEN p
    ELSE synchronize_loop(Parser_advance(p))

\* a synchronize that does not discard the token the error was reported at
synchronize_without_advance(p) == synchronize_loop(p)

synchronize(p) == synchronize_loop(Parser_advance(p))

RECURSIVE expression(_)
RECURSIVE assignment(_)
RECURSIVE Operand(_, _)
RECURSIVE LeftAssociative(_, _)
RECURSIVE unary(_)
RECURSIVE call(_)
RECURSIVE call_loop(_)
RECURSIVE finish_call(_, _)
RECURSIVE arguments_loop(_, _)
RECURSIVE primary(_)
RECURSIVE declaration(_)
RECURSIVE class_declaration(_)
RECURSIVE methods_loop(_, _)
RECURSIVE statement(_)
RECURSIVE for_statement(_)
RECURSIVE if_statement(_)
RECURSIVE print_statement(_)
RECURSIVE return_statement(_)
RECURSIVE var_declaration(_)
RECURSIVE while_statement(_)
RECURSIVE expression_statement(_)
RECURSIVE Parser_function(_, _)
RECURSIVE parameters_loop(_, _)
RECURSIVE block(_)
RECURSIVE block_loop(_, _)

expression(p) == assignment(p)

\* the token types a binary level matches in its while loop
OperatorTokens(level) ==
    CASE level = "or_expression" -> {"OR"}
      [] level = "and_expression" -> {"AND"}
      [] level = "equality" -> {"BANG_EQUAL", "EQUAL_EQUAL"}
      [] level = "comparison" -> {"GREATER", "GREATER_EQUAL", "LESS", "LESS_EQUAL"}
      [] level = "term" -> {"MINUS", "PLUS"}
      [] level = "factor" -> {"SLASH", "STAR"}

\* the operand method a binary level calls on both sides of its operator
Operand(p, level) ==
    CASE level = "or_expression" -> LeftAssociative(Operand(p, "and_expression"), "and_expression")
      [] level = "and_expression" -> LeftAssociative(Operand(p, "equality"), "equality")
      [] level = "equality" -> LeftAssociative(Operand(p, "comparison"), "comparison")
      [] level = "comparison" -> LeftAssociative(Operand(p, "term"), "term")
      [] level = "term" -> LeftAssociative(Operand(p, "factor"), "factor")
      [] level = "factor" -> unary(p)

\* while self.match(...): operator = previous(); right = operand(); expr = Binary or Logical
LeftAssociative(r, level) ==
    ThenParse(r, LAMBDA left :
        IF ~match(left.p, OperatorTokens(level)) THEN left
        ELSE ThenParse(Operand(Parser_advance(left.p), level), LAMBDA right :
                LeftAssociative(
                    Parsed(right.p,
                           IF level \in {"or_expression", "and_expression"}
                           THEN Logical(left.node, Parser_peek(left.p).lexeme, right.node)
                           ELSE Binary(left.node, Parser_peek(left.p).lexeme, right.node)),
                    level)))

or_expression(p) == LeftAssociative(Operand(p, "or_expression"), "or_expression")

\* the end of Parser.assignment, after `value = self.assignment()`
AssignmentTarget(expr, equals, value) ==
    IF expr.node.k = "Variable"
    THEN Parsed(value.p, Assign(expr.node.id, expr.node.name, value.node))
    ELSE IF expr.node.k = "Get"
    THEN Parsed(value.p, SetExpr(expr.node.object, expr.node.name, value.node))
    ELSE Parsed(Parser_error(value.p, equals, "Invalid assignment target."), expr.node)

assignment(p) ==
    ThenParse(or_expression(p), LAMBDA expr :
        IF ~match(expr.p, {"EQUAL"}) THEN expr
        ELSE ThenParse(assignment(Parser_advance(expr.p)), LAMBDA value :
                AssignmentTarget(expr, Parser_peek(expr.p), value)))

unary(p) ==
    IF match(p, {"BANG", "MINUS"})
    THEN ThenParse(unary(Parser_advance(p)), LAMBDA right :
            Parsed(right.p, Unary(Parser_peek(p).lexeme, right.node)))
    ELSE call(p)

\* the loop of finish_call over the arguments after the first
arguments_loop(r, arguments) ==
    ThenParse(r, LAMBDA arg :
        IF ~match(arg.p, {"COMMA"}) THEN Parsed(arg.p, Append(arguments, arg.node))
        ELSE arguments_loop(
                expression(IF Len(arguments) + 1 >= 255
                           THEN Parser_error(Parser_advance(arg.p),
                                             Parser_peek(Parser_advance(arg.p)),
                                             "Can't have more than 255 arguments.")
                           ELSE Parser_advance(arg.p)),
                Append(arguments, arg.node)))

finish_call(p, callee) ==
    ThenParse(IF check(p, "RIGHT_PAREN") THEN Parsed(p, <<>>)
              ELSE arguments_loop(expression(p), <<>>),
        LAMBDA arguments :
            ThenParse(consume(arguments.p, "RIGHT_PAREN", "Expect ')' after arguments."),
                LAMBDA paren : Parsed(paren.p, Call(callee, arguments.node))))

\* the `while True` of Parser.call
call_loop(r) ==
    ThenParse(r, LAMBDA expr :
        IF match(expr.p, {"LEFT_PAREN"})
        THEN call_loop(finish_call(Parser_advance(expr.p), expr.node))
        ELSE IF match(expr.p, {"DOT"})
        THEN call_loop(
                ThenParse(consume(Parser_advance(expr.p), "IDENTIFIER",
                                  "Expect property name after '.'."),
                    LAMBDA name : Parsed(name.p, Get(expr.node, name.node.lexeme))))
        ELSE expr)

call(p) == call_loop(primary(p))

primary(p) ==
    CASE match(p, {"FALSE"}) -> Parsed(Parser_advance(p), Literal(Bool(FALSE)))
      [] match(p, {"TRUE"}) -> Parsed(Parser_advance(p), Literal(Bool(TRUE)))
      [] match(p, {"NIL"}) -> Parsed(Parser_advance(p), Literal(Nil))
      [] match(p, {"NUMBER", "STRING"}) ->
            Parsed(Parser_advance(p), Literal(Parser_peek(p).literal))
      [] match(p, {"SUPER"}) ->
            ThenParse(consume(Parser_advance(p), "DOT", "Expect '.' after 'super'."),
                LAMBDA dot :
                    ThenParse(consume(dot.p, "IDENTIFIER", "Expect superclass method name."),
                        LAMBDA method :
                            Parsed(method.p, Super(p.current + 1, method.node.lexeme))))
      [] match(p, {"LEFT_PAREN"}) ->
            ThenParse(expression(Parser_advance(p)), LAMBDA expr :
                ThenParse(consume(expr.p, "RIGHT_PAREN", "Expect ')' after expression."),
                    LAMBDA paren : Parsed(paren.p, Grouping(expr.node))))
      [] match(p, {"THIS"}) -> Parsed(Parser_advance(p), This(p.current + 1))
      [] match(p, {"IDENTIFIER"}) ->
            Parsed(Parser_advance(p), VariableExpr(p.current + 1, Parser_peek(p).lexeme))
      [] OTHER -> RaiseParseError(Parser_error(p, Parser_peek(p), "Expect expression."))

\* Parser.declaration: a ParseError ends in synchronize and None
declaration(p) ==
    LET r == CASE match(p, {"CLASS"}) -> class_declaration(Parser_advance(p))
               [] match(p, {"FUN"}) -> Parser_function(Parser_advance(p), "function")
               [] match(p, {"VAR"}) -> var_declaration(Parser_advance(p))
               [] OTHER -> statement(p)
    IN  IF r.raised THEN Parsed(synchronize(r.p), NoNode) ELSE r

\* the loop over the methods of a class body
methods_loop(p, methods) ==
    IF ~check(p, "RIGHT_BRACE") /\ ~is_at_end(p)
    THEN ThenParse(Parser_function(p, "method"), LAMBDA method :
            methods_loop(method.p, Append(methods, method.node)))
    ELSE Parsed(p, methods)

\* the superclass clause of class_declaration
superclass_clause(p) ==
    IF match(p, {"LESS"})
    THEN ThenParse(consume(Parser_advance(p), "IDENTIFIER", "Expect superclass name."),
            LAMBDA name : Parsed(name.p, VariableExpr(name.p.current, name.node.lexeme)))
    ELSE Parsed(p, NoNode)

class_declaration(p) ==
    ThenParse(consume(p, "IDENTIFIER", "Expect class name."), LAMBDA name :
        ThenParse(superclass_clause(name.p), LAMBDA superclass :
            ThenParse(consume(superclass.p, "LEFT_BRACE", "Expect '{' before class body."),
                LAMBDA brace :
                    ThenParse(methods_loop(brace.p, <<>>), LAMBDA methods :
                        ThenParse(consume(methods.p, "RIGHT_BRACE",
                                          "Expect '}' after class body."),
                            LAMBDA close :
                                Parsed(close.p, Class(name.node.lexeme, superclass.node,
                                                      methods.node)))))))

\* a statement parser that also accepts the declarations
statement_with_declarations(p) ==
    CASE match(p, {"CLASS"}) -> class_declaration(Parser_advance(p))
      [] match(p, {"FUN"}) -> Parser_function(Parser_advance(p), "function")
      [] match(p, {"VAR"}) -> var_declaration(Parser_advance(p))
      [] match(p, {"FOR"}) -> for_statement(Parser_advance(p))
      [] match(p, {"IF"}) -> if_statement(Parser_advance(p))
      [] match(p, {"PRINT"}) -> print_statement(Parser_advance(p))
      [] match(p, {"RETURN"}) -> return_statement(Parser_advance(p))
      [] match(p, {"WHILE"}) -> while_statement(Parser_advance(p))
      [] match(p, {"LEFT_BRACE"}) ->
            ThenParse(block(Parser_advance(p)), LAMBDA b : Parsed(b.p, Block(b.node)))
      [] OTHER -> expression_statement(p)

\* Parser.statement: no case for var, fun or class
statement(p) ==
    CASE match(p, {"FOR"}) -> for_statement(Parser_advance(p))
      [] match(p, {"IF"}) -> if_statement(Parser_advance(p))
      [] match(p, {"PRINT"}) -> print_statement(Parser_advance(p))
      [] match(p, {"RETURN"}) -> return_statement(Parser_advance(p))
      [] match(p, {"WHILE"}) -> while_statement(Parser_advance(p))
      [] match(p, {"LEFT_BRACE"}) ->
            ThenParse(block(Parser_advance(p)), LAMBDA b : Parsed(b.p, Block(b.node)))
      [] OTHER -> expression_statement(p)

\* the initializer clause of for_statement
for_initializer(p) ==
    IF match(p, {"SEMICOLON"}) THEN Parsed(Parser_advance(p), NoNode)
    ELSE IF match(p, {"VAR"}) THEN var_declaration(Parser_advance(p))
    ELSE expression_statement(p)

\* `if not self.check(closing): self.expression()`, else None
optional_expression(p, closing) ==
    IF ~check(p, closing) THEN expression(p) ELSE Parsed(p, NoNode)

\* the desugaring at the end of for_statement
for_desugar(initializer, condition, increment, body) ==
    LET b1 == IF increment.k # "None" THEN Block(<<body, Expression(increment)>>) ELSE body
        b2 == While(IF condition.k = "None" THEN Literal(Bool(TRUE)) ELSE condition, b1)
    IN  IF initializer.k # "None" THEN Block(<<initializer, b2>>) ELSE b2

for_statement(p) ==
    ThenParse(consume(p, "LEFT_PAREN", "Expect '(' after 'for'."), LAMBDA paren :
      ThenParse(for_initializer(paren.p), LAMBDA initializer :
        ThenParse(optional_expression(initializer.p, "SEMICOLON"), LAMBDA condition :
          ThenParse(consume(condition.p, "SEMICOLON", "Expect ';' after loop condition."),
            LAMBDA semi :
              ThenParse(optional_expression(semi.p, "RIGHT_PAREN"), LAMBDA increment :
                ThenParse(consume(increment.p, "RIGHT_PAREN", "Expect ')' after for clauses."),
                  LAMBDA close :
                    ThenParse(statement(close.p), LAMBDA body :
                      Parsed(body.p, for_desugar(initializer.node, condition.node,
                                                 increment.node, body.node)))))))))

\* the else clause of if_statement
else_clause(p) ==
    IF match(p, {"ELSE"}) THEN statement(Parser_advance(p)) ELSE Parsed(p, NoNode)

if_statement(p) ==
    ThenParse(consume(p, "LEFT_PAREN", "Expect '(' after if."), LAMBDA paren :
      ThenParse(expression(paren.p), LAMBDA condition :
        ThenParse(consume(condition.p, "RIGHT_PAREN", "Expect ')' after if condition."),
          LAMBDA close :
            ThenParse(statement(close.p), LAMBDA then_branch :
              ThenParse(else_clause(then_branch.p), LAMBDA else_branch :
                Parsed(else_branch.p, If(condition.node, then_branch.node,
                                         else_branch.node)))))))

print_statement(p) ==
    ThenParse(expression(p), LAMBDA value :
        ThenParse(consume(value.p, "SEMICOLON", "Expect ';' after value."), LAMBDA semi :
            Parsed(semi.p, PrintStmt(value.node))))

return_statement(p) ==
    ThenParse(optional_expression(p, "SEMICOLON"), LAMBDA value :
        ThenParse(consume(value.p, "SEMICOLON", "Expect ';' after return value"),
            LAMBDA semi : Parsed(semi.p, Return(value.node))))

\* the end of var_declaration, after the ';' was consumed
var_declaration_end(p, name, initializer) ==
    IF initializer.k = "None"
    THEN RaiseParseError(Parser_error(p, Parser_peek(p), "Expect variable expression."))
    ELSE Parsed(p, VarStmt(name, initializer))

var_declaration(p) ==
    ThenParse(consume(p, "IDENTIFIER", "Expect variable name."), LAMBDA name :
        ThenParse(IF match(name.p, {"EQUAL"}) THEN expression(Parser_advance(name.p))
                  ELSE Parsed(name.p, NoNode),
            LAMBDA initializer :
                ThenParse(consume(initializer.p, "SEMICOLON",
                                  "Expect ';' after variable declaration"),
                    LAMBDA semi :
                        var_declaration_end(semi.p, name.node.lexeme, initializer.node))))

while_statement(p) ==
    ThenParse(consume(p, "LEFT_PAREN", "Expect '(' after 'while'."), LAMBDA paren :
      ThenParse(expression(paren.p), LAMBDA condition :
        ThenParse(consume(condition.p, "RIGHT_PAREN", "Expect ')' after condition."),
          LAMBDA close :
            ThenParse(statement(close.p), LAMBDA body :
              Parsed(body.p, While(condition.node, body.node))))))

expression_statement(p) ==
    ThenParse(expression(p), LAMBDA expr :
        ThenParse(consume(expr.p, "SEMICOLON", "Expect ';' after expression."), LAMBDA semi :
            Parsed(semi.p, Expression(expr.node))))

\* the loop of Parser.function over the parameters after the first
parameters_loop(r, parameters) ==
    ThenParse(r, LAMBDA name :
        IF ~match(name.p, {"COMMA"}) THEN Parsed(name.p, Append(parameters, name.node.lexeme))
        ELSE parameters_loop(
                consume(IF Len(parameters) + 1 >= 255
                        THEN Parser_error(Parser_advance(name.p),
                                          Parser_peek(Parser_advance(name.p)),
                                          "Can't have more than 255 parameters.")
                        ELSE Parser_advance(name.p),
                        "IDENTIFIER", "Expect parameter name."),
                Append(parameters, name.node.lexeme)))

Parser_function(p, kind) ==
    ThenParse(consume(p, "IDENTIFIER", "Expect " \o kind \o " name."), LAMBDA name :
      ThenParse(consume(name.p, "LEFT_PAREN", "Expect '(' after " \o kind \o " name."),
        LAMBDA paren :
          ThenParse(IF check(paren.p, "RIGHT_PAREN") THEN Parsed(paren.p, <<>>)
                    ELSE parameters_loop(consume(paren.p, "IDENTIFIER",
                                                 "Expect parameter name."), <<>>),
            LAMBDA parameters :
              ThenParse(consume(parameters.p, "RIGHT_PAREN", "Expect ')' after parameters."),
                LAMBDA close :
                  ThenParse(consume(close.p, "LEFT_BRACE",
                                    "Expect '{' before " \o kind \o " body."),
                    LAMBDA brace :
                      ThenParse(block(brace.p), LAMBDA body :
                        Parsed(body.p, Function(name.node.lexeme, parameters.node,
                                                body.node)))))))) 

\* the while loop of Parser.block; a declaration that returned None is dropped
block_loop(p, statements_so_far) ==
    IF ~check(p, "RIGHT_BRACE") /\ ~is_at_end(p)
    THEN ThenParse(declaration(p), LAMBDA stmt :
            block_loop(stmt.p, IF stmt.node.k = "None" THEN statements_so_far
                               ELSE Append(statements_so_far, stmt.node)))
    ELSE Parsed(p, statements_so_far)

block(p) ==
    ThenParse(block_loop(p, <<>>), LAMBDA stmts :
        ThenParse(consume(stmts.p, "RIGHT_BRACE", "Expect '}' after block."), LAMBDA close :
            Parsed(close.p, stmts.node)))

(***************************************************************************)
(* The sources handed to Lox.run.  Each entry gives what the scanner and   *)
(* the parser make of the source text quoted above it: the number of       *)
(* errors they report through Lox.report and the statements Parser.parse   *)
(* returns (a declaration that raised ParseError is dropped).              *)
(***************************************************************************)
(* P_arith:
     print 1 + 2; print 7 - 2 * 3; print "a" + "b"; print -(3); *)
P_arith ==
    [name |-> "P_arith", front_end_errors |-> 0, statements |->
        <<PrintStmt(Binary(Literal(Num(1)), "+", Literal(Num(2)))),
        PrintStmt(Binary(Literal(Num(7)), "-", Binary(Literal(Num(2)), "*",
        Literal(Num(3))))), PrintStmt(Binary(Literal(Str("a")), "+",
        Literal(Str("b")))), PrintStmt(Unary("-", Grouping(Literal(Num(3)))))>>]

(* P_add_string_nil:
     "s" + nil;
     print "after"; *)
P_add_string_nil ==
    [name |-> "P_add_string_nil", front_end_errors |-> 0, statements |->
        <<Expression(Binary(Literal(Str("s")), "+", Literal(Nil))),
        PrintStmt(Literal(Str("after")))>>]

(* P_negate_string:
     print "before"; -"a"; print "after"; *)
P_negate_string ==
    [name |-> "P_negate_string", front_end_errors |-> 0, statements |->
        <<PrintStmt(Literal(Str("before"))), Expression(Unary("-", Literal(Str("a")))),
        PrintStmt(Literal(Str("after")))>>]

(* P_less_string:
     print 1 < "a"; print 2; *)
P_less_string ==
    [name |-> "P_less_string", front_end_errors |-> 0, statements |->
        <<PrintStmt(Binary(Literal(Num(1)), "<", Literal(Str("a")))),
        PrintStmt(Literal(Num(2)))>>]

(* P_get_on_num:
     123.foo; *)
P_get_on_num ==
    [name |-> "P_get_on_num", front_end_errors |-> 0, statements |->
        <<Expression(Get(Literal(Num(123)), "foo"))>>]

(* P_missing_arguments:
     class Foo {
       method(a, b) {}
     }

     Foo().method(1); *)
P_missing_arguments ==
    [name |-> "P_missing_arguments", front_end_errors |-> 0, statements |->
        <<Class("Foo", NoNode, <<Function("method", <<"a", "b">>, <<>>)>>),
        Expression(Call(Get(Call(VariableExpr(601, "Foo"), <<>>), "method"),
        <<Literal(Num(1))>>))>>]

(* P_inherit_from_nil:
     var Nil = nil;
     class Foo < Nil {} *)
P_inherit_from_nil ==
    [name |-> "P_inherit_from_nil", front_end_errors |-> 0, statements |->
        <<VarStmt("Nil", Literal(Nil)), Class("Foo", VariableExpr(701, "Nil"), <<>>)>>]

(* P_early_bound:
     var a = "outer";
     {
       fun foo() {
         print a;
       }

       foo();
       var a = "inner";
       foo();
     } *)
P_early_bound ==
    [name |-> "P_early_bound", front_end_errors |-> 0, statements |->
        <<VarStmt("a", Literal(Str("outer"))), Block(<<Function("foo", <<>>,
        <<PrintStmt(VariableExpr(801, "a"))>>), Expression(Call(VariableExpr(802,
        "foo"), <<>>)), VarStmt("a", Literal(Str("inner"))),
        Expression(Call(VariableExpr(803, "foo"), <<>>))>>)>>]

(* P_super_in_inherited_method:
     class A {
       say() {
         print "A";
       }
     }

     class B < A {
       test() {
         super.say();
       }

       say() {
         print "B";
       }
     }

     class C < B {
       say() {
         print "C";
       }
     }

     C().test(); *)
P_super_in_inherited_method ==
    [name |-> "P_super_in_inherited_method", front_end_errors |-> 0, statements |->
        <<Class("A", NoNode, <<Function("say", <<>>,
        <<PrintStmt(Literal(Str("A")))>>)>>), Class("B", VariableExpr(901, "A"),
        <<Function("test", <<>>, <<Expression(Call(Super(902, "say"), <<>>))>>),
        Function("say", <<>>, <<PrintStmt(Literal(Str("B")))>>)>>), Class("C",
        VariableExpr(903, "B"), <<Function("say", <<>>,
        <<PrintStmt(Literal(Str("C")))>>)>>), Expression(Call(Get(Call(VariableExpr(904,
        "C"), <<>>), "test"), <<>>))>>]

(* P_constructor_default:
     class Foo {}

     var foo = Foo();
     print foo; *)
P_constructor_default ==
    [name |-> "P_constructor_default", front_end_errors |-> 0, statements |->
        <<Class("Foo", NoNode, <<>>), VarStmt("foo", Call(VariableExpr(1001, "Foo"),
        <<>>)), PrintStmt(VariableExpr(1002, "foo"))>>]

(* P_call_matching:
     fun f(a) { print a; }
     f(1);
     print "after"; *)
P_call_matching ==
    [name |-> "P_call_matching", front_end_errors |-> 0, statements |->
        <<Function("f", <<"a">>, <<PrintStmt(VariableExpr(1101, "a"))>>),
        Expression(Call(VariableExpr(1102, "f"), <<Literal(Num(1))>>)),
        PrintStmt(Literal(Str("after")))>>]

(* P_call_too_many:
     fun g() { print "g"; }
     g(1, 2); *)
P_call_too_many ==
    [name |-> "P_call_too_many", front_end_errors |-> 0, statements |->
        <<Function("g", <<>>, <<PrintStmt(Literal(Str("g")))>>),
        Expression(Call(VariableExpr(1201, "g"), <<Literal(Num(1)),
        Literal(Num(2))>>))>>]

(* P_call_non_callable:
     var s = "str"; s(); *)
P_call_non_callable ==
    [name |-> "P_call_non_callable", front_end_errors |-> 0, statements |->
        <<VarStmt("s", Literal(Str("str"))), Expression(Call(VariableExpr(1301, "s"),
        <<>>))>>]

(* P_this_outside:
     print 1; print this; *)
P_this_outside ==
    [name |-> "P_this_outside", front_end_errors |-> 0, statements |->
        <<PrintStmt(Literal(Num(1))), PrintStmt(This(1401))>>]

(* P_var_no_init:
     print 1; var x; print 2; *)
P_var_no_init ==
    [name |-> "P_var_no_init", front_end_errors |-> 1, statements |->
        <<PrintStmt(Literal(Num(1)))>>]

(* P_bad_char:
     print 1; @ *)
P_bad_char ==
    [name |-> "P_bad_char", front_end_errors |-> 1, statements |->
        <<PrintStmt(Literal(Num(1)))>>]

(* P_return_top:
     print 1; return 1; *)
P_return_top ==
    [name |-> "P_return_top", front_end_errors |-> 0, statements |->
        <<PrintStmt(Literal(Num(1))), Return(Literal(Num(1)))>>]

(* P_own_initializer:
     var a = 1; { var a = a; } *)
P_own_initializer ==
    [name |-> "P_own_initializer", front_end_errors |-> 0, statements |->
        <<VarStmt("a", Literal(Num(1))), Block(<<VarStmt("a", VariableExpr(1801,
        "a"))>>)>>]

(* P_equality:
     print "1" == 1; print nil == false; print true == 1; print 1 == 1; print "a" != "a"; *)
P_equality ==
    [name |-> "P_equality", front_end_errors |-> 0, statements |->
        <<PrintStmt(Binary(Literal(Str("1")), "==", Literal(Num(1)))),
        PrintStmt(Binary(Literal(Nil), "==", Literal(Bool(FALSE)))),
        PrintStmt(Binary(Literal(Bool(TRUE)), "==", Literal(Num(1)))),
        PrintStmt(Binary(Literal(Num(1)), "==", Literal(Num(1)))),
        PrintStmt(Binary(Literal(Str("a")), "!=", Literal(Str("a"))))>>]

(* P_undefined_var:
     print 1; print nope; print 2; *)
P_undefined_var ==
    [name |-> "P_undefined_var", front_end_errors |-> 0, statements |->
        <<PrintStmt(Literal(Num(1))), PrintStmt(VariableExpr(2001, "nope")),
        PrintStmt(Literal(Num(2)))>>]

(* P_while:
     var i = 0; while (i < 2) { print i; i = i + 1; } *)
P_while ==
    [name |-> "P_while", front_end_errors |-> 0, statements |->
        <<VarStmt("i", Literal(Num(0))), While(Binary(VariableExpr(2101, "i"), "<",
        Literal(Num(2))), Block(<<PrintStmt(VariableExpr(2102, "i")),
        Expression(Assign(2103, "i", Binary(VariableExpr(2104, "i"), "+",
        Literal(Num(1)))))>>))>>]

(* P_logical:
     print nil or 3; print 1 and 5; *)
P_logical ==
    [name |-> "P_logical", front_end_errors |-> 0, statements |->
        <<PrintStmt(Logical(Literal(Nil), "or", Literal(Num(3)))),
        PrintStmt(Logical(Literal(Num(1)), "and", Literal(Num(5))))>>]

(* P_classes:
     class A { init(a, b) { print a; } }
     class B < A { }
     class C < B { init() { return; } }
     class D { get() { return this; } } *)
P_classes ==
    [name |-> "P_classes", front_end_errors |-> 0, statements |->
        <<Class("A", NoNode, <<Function("init", <<"a", "b">>,
        <<PrintStmt(VariableExpr(2301, "a"))>>)>>), Class("B", VariableExpr(2302, "A"),
        <<>>), Class("C", VariableExpr(2303, "B"), <<Function("init", <<>>,
        <<Return(NoNode)>>)>>), Class("D", NoNode, <<Function("get", <<>>,
        <<Return(This(2304))>>)>>)>>]

(* P_init_with_arg:
     class P { init(x) { print x; } }
     var p = P(1); *)
P_init_with_arg ==
    [name |-> "P_init_with_arg", front_end_errors |-> 0, statements |->
        <<Class("P", NoNode, <<Function("init", <<"x">>, <<PrintStmt(VariableExpr(2401,
        "x"))>>)>>), VarStmt("p", Call(VariableExpr(2402, "P"), <<Literal(Num(1))>>))>>]

(* P_divide:
     print 6 / 3; print 1 / 0; print 3; *)
P_divide ==
    [name |-> "P_divide", front_end_errors |-> 0, statements |->
        <<PrintStmt(Binary(Literal(Num(6)), "/", Literal(Num(3)))),
        PrintStmt(Binary(Literal(Num(1)), "/", Literal(Num(0)))),
        PrintStmt(Literal(Num(3)))>>]

(* P_if:
     if (nil) print "t"; else print "e"; if (0) { var z = 1; print z; } *)
P_if ==
    [name |-> "P_if", front_end_errors |-> 0, statements |->
        <<If(Literal(Nil), PrintStmt(Literal(Str("t"))), PrintStmt(Literal(Str("e")))),
        If(Literal(Num(0)), Block(<<VarStmt("z", Literal(Num(1))),
        PrintStmt(VariableExpr(2601, "z"))>>), NoNode)>>]

(* P_nested_blocks:
     var a = 1; { var a = 2; { var a = 3; } print a; } { { print nope; } } print a; *)
P_nested_blocks ==
    [name |-> "P_nested_blocks", front_end_errors |-> 0, statements |->
        <<VarStmt("a", Literal(Num(1))),
        Block(<<VarStmt("a", Literal(Num(2))),
                Block(<<VarStmt("a", Literal(Num(3)))>>),
                PrintStmt(VariableExpr(2701, "a"))>>),
        Block(<<Block(<<PrintStmt(VariableExpr(2702, "nope"))>>)>>),
        PrintStmt(VariableExpr(2703, "a"))>>]

Programs == <<P_arith, P_add_string_nil, P_negate_string, P_less_string,
             P_get_on_num, P_missing_arguments, P_inherit_from_nil, P_early_bound,
             P_super_in_inherited_method, P_constructor_default, P_call_matching, P_call_too_many,
             P_call_non_callable, P_this_outside, P_var_no_init, P_bad_char,
             P_return_top, P_own_initializer, P_equality, P_undefined_var,
             P_while, P_logical, P_classes, P_init_with_arg,
             P_divide, P_if, P_nested_blocks>>


\* number of calls of Lox.run in one process
MaxRuns == 2

\* the sources of the calls of Lox.run after the first
RerunSources ==
    {i \in 1..Len(Programs) :
        Programs[i].name \in {"P_arith", "P_add_string_nil", "P_this_outside",
                              "P_var_no_init", "P_undefined_var"}}

(***************************************************************************)
(* Lox.run, Interpreter.interpret and the callers of Lox.run.              *)
(***************************************************************************)
\* the evaluation state: the interpreter and what was printed
World(i, o) ==
    [envs |-> i.envs, environment |-> i.environment, locals |-> i.locals,
     instances |-> i.instances, next_oid |-> i.next_oid, out |-> o]

InterpreterOf(s) ==
    [envs |-> s.envs, environment |-> s.environment, locals |-> s.locals,
     instances |-> s.instances, next_oid |-> s.next_oid]

\* Interpreter.__init__: globals holds clock, environment is globals, locals is empty
Interpreter_new ==
    [envs |-> <<[values |-> ("clock" :> ClockV), enclosing |-> 0]>>,
     environment |-> GlobalsEnv, locals |-> [n \in {} |-> 0],
     instances |-> <<>>, next_oid |-> 1]

\* `before` is the scanner as it was when the last turn of scan_tokens began
\* `turn` is the parser and the statements of Parser.parse as they were when
\* the last turn of its loop began
NoHist ==
    [resolved |-> FALSE, executed |-> 0, reported |-> "none", ex |-> NoEx,
     before |-> Scanner_new(<<>>),
     turn |-> [parser |-> Parser_new(<<>>), statements |-> <<>>]]

\* env, name, value and before: the environment a method of Environment was
\* called on, its arguments, and the environments as they were before the call
NoCall ==
    [op |-> "none", target |-> Nil, this |-> Nil, is_initializer |-> FALSE,
     left |-> Nil, right |-> Nil, converse |-> Nil, result |-> Nil, ex |-> NoEx,
     env |-> 0, name |-> "", value |-> Nil, before |-> <<>>]

InitWith(m) ==
    /\ pc = "idle"
    /\ mode = m
    /\ source = 0
    /\ statements = <<>>
    /\ had_error = FALSE
    /\ had_runtime_error = FALSE
    /\ interpreter = Interpreter_new
    /\ stdout = <<>>
    /\ next_stmt = 1
    /\ uncaught = "none"
    /\ runs = 0
    /\ hist = NoHist
    /\ resolver = Resolver_new([n \in {} |-> 0])
    /\ scanner = Scanner_new(<<>>)
    /\ parser = Parser_new(<<>>)

Init == \E m \in {"direct", "prompt"} : InitWith(m) /\ last = NoCall

\* a Lox.run that begins by clearing had_error
HadErrorAfterParse_cleared(flag, errors) == errors > 0

\* had_error after the scanner and the parser: Lox.report sets it, nothing in
\* Lox.run clears it
HadErrorAfterParse(flag, errors) == flag \/ errors > 0

\* Lox.run up to the first test of had_error: scan and parse
Run(src) ==
    /\ pc = "idle"
    /\ runs < MaxRuns
    /\ runs > 0 => src \in RerunSources
    /\ source' = src
    /\ statements' = Programs[src].statements
    /\ had_error' = HadErrorAfterParse(had_error, Programs[src].front_end_errors)
    /\ hist' = [NoHist EXCEPT !.reported =
                    IF Programs[src].front_end_errors > 0 THEN "front_end" ELSE "none"]
    /\ runs' = runs + 1
    /\ next_stmt' = 1
    /\ pc' = "parsed"
    /\ UNCHANGED <<mode, scanner, parser, had_runtime_error, interpreter, stdout, uncaught, last, resolver>>

\* `if cls.had_error: return` after the parse
RunReturnsAfterParse == had_error

RunReturnsAfterResolve_never == FALSE

\* `if cls.had_error: return` after the resolver
RunReturnsAfterResolve == had_error

ReturnAfterParse ==
    /\ pc = "parsed"
    /\ RunReturnsAfterParse
    /\ pc' = "returned"
    /\ UNCHANGED <<mode, scanner, parser, source, statements, had_error, had_runtime_error, interpreter,
                   stdout, next_stmt, uncaught, runs, hist, last, resolver>>

\* Lox.run is between its first test of had_error and the end of the resolve loop
Resolving ==
    \/ pc = "parsed" /\ ~RunReturnsAfterParse
    \/ pc = "resolving"

\* resolver = Resolver(interpreter), made when the resolve loop is entered
CurrentResolver ==
    IF pc = "parsed" THEN Resolver_new(interpreter.locals)
    ELSE [resolver EXCEPT !.locals = interpreter.locals]

\* one turn of `for statement in statements: statement.resolve(resolver)`
ResolveStatement ==
    /\ Resolving
    /\ next_stmt <= Len(statements)
    /\ \E rs \in {ResolveStmt(statements[next_stmt], CurrentResolver)} :
           /\ resolver' = rs
           /\ interpreter' = [interpreter EXCEPT !.locals = rs.locals]
           /\ had_error' = (had_error \/ Len(rs.errors) > 0)
           /\ hist' = [hist EXCEPT !.resolved = TRUE,
                                   !.reported = IF Len(rs.errors) > 0 THEN "resolve" ELSE @]
    /\ next_stmt' = next_stmt + 1
    /\ pc' = "resolving"
    /\ UNCHANGED <<mode, scanner, parser, source, statements, had_runtime_error, stdout,
                   uncaught, runs, last>>

\* the resolve loop ends
ResolveDone ==
    /\ Resolving
    /\ next_stmt > Len(statements)
    /\ resolver' = CurrentResolver
    /\ hist' = [hist EXCEPT !.resolved = TRUE]
    /\ next_stmt' = 1
    /\ pc' = "resolved"
    /\ UNCHANGED <<mode, scanner, parser, source, statements, had_error, had_runtime_error, interpreter,
                   stdout, uncaught, runs, last>>

ReturnAfterResolve ==
    /\ pc = "resolved"
    /\ RunReturnsAfterResolve
    /\ pc' = "returned"
    /\ UNCHANGED <<mode, scanner, parser, source, statements, had_error, had_runtime_error, interpreter,
                   stdout, next_stmt, uncaught, runs, hist, last, resolver>>

\* Interpreter.interpret has been entered and not left
Interpreting ==
    \/ pc = "resolved" /\ ~RunReturnsAfterResolve
    \/ pc = "interpreting"

\* `except LoxRuntimeError` in Interpreter.interpret
InterpretCatches(kind) == kind = "LoxRuntimeError"

\* one turn of the loop of Interpreter.interpret: statement.evaluate(), and the
\* except clause when it raises
InterpretStatement ==
    /\ Interpreting
    /\ next_stmt <= Len(statements)
    /\ \E r \in {Execute(statements[next_stmt], World(interpreter, stdout))} :
           /\ interpreter' = InterpreterOf(r.s)
           /\ stdout' = r.s.out
           /\ hist' = [hist EXCEPT !.executed = @ + 1, !.ex = r.ex]
           /\ IF ~Raised(r)
              THEN /\ pc' = "interpreting"
                   /\ next_stmt' = next_stmt + 1
                   /\ UNCHANGED <<had_runtime_error, uncaught>>
              ELSE IF InterpretCatches(r.ex.kind)
              THEN \* Lox.runtime_error
                   /\ pc' = "returned"
                   /\ had_runtime_error' = TRUE
                   /\ UNCHANGED <<next_stmt, uncaught>>
              ELSE /\ pc' = "crashed"
                   /\ uncaught' = r.ex.kind
                   /\ UNCHANGED <<next_stmt, had_runtime_error>>
    /\ UNCHANGED <<mode, scanner, parser, source, statements, had_error, runs, last, resolver>>

\* the loop of Interpreter.interpret ends; Lox.run returns
InterpretDone ==
    /\ Interpreting
    /\ next_stmt > Len(statements)
    /\ pc' = "returned"
    /\ UNCHANGED <<mode, scanner, parser, source, statements, had_error, had_runtime_error, interpreter,
                   stdout, next_stmt, uncaught, runs, hist, last, resolver>>

\* a caller such as a test calls Lox.run again: the class attributes are kept
CallAgain ==
    /\ pc = "returned"
    /\ mode = "direct"
    /\ runs < MaxRuns
    /\ pc' = "idle"
    /\ UNCHANGED <<mode, scanner, parser, source, statements, had_error, had_runtime_error, interpreter,
                   stdout, next_stmt, uncaught, runs, hist, last, resolver>>

\* Lox.run_prompt: cls.had_error = False, then the next turn of its loop
PromptLoop ==
    /\ pc = "returned"
    /\ mode = "prompt"
    /\ runs < MaxRuns
    /\ had_error' = FALSE
    /\ pc' = "idle"
    /\ UNCHANGED <<mode, scanner, parser, source, statements, had_runtime_error, interpreter,
                   stdout, next_stmt, uncaught, runs, hist, last, resolver>>

RunStep ==
    \/ \E src \in 1..Len(Programs) : Run(src)
    \/ ReturnAfterParse
    \/ ResolveStatement
    \/ ResolveDone
    \/ ReturnAfterResolve
    \/ InterpretStatement
    \/ InterpretDone

Next ==
    \/ RunStep
    \/ CallAgain
    \/ PromptLoop

Spec == Init /\ [][Next]_vars

(***************************************************************************)
(* The runtime objects called directly.  After one Lox.run a caller holds  *)
(* the module-level interpreter and calls LoxClass.arity, LoxClass.call    *)
(* and LoxFunction.call on the objects it finds in the globals, or on      *)
(* LoxFunction objects it constructs itself.                               *)
(***************************************************************************)
\* interpreter.globals.values
GlobalValues == interpreter.envs[GlobalsEnv].values

\* the names of the globals that hold an object of the given class
GlobalsOf(tag) == {n \in DOMAIN GlobalValues : GlobalValues[n].tag = tag}

\* the `arguments` lists handed to call
ArgLists == <<<<>>, <<Num(1)>>, <<Num(1), Num(2)>>>>

\* the method names looked up with find_method
MethodNames == {"init", "get", "say", "test"}

\* Function declarations the parser builds for a method named init; the
\* resolver reports the third and the fourth, the parser does not
InitDeclarations ==
    <<Function("init", <<>>, <<>>),
      Function("init", <<>>, <<Return(NoNode)>>),
      Function("init", <<>>, <<Return(Literal(Num(5)))>>),
      Function("init", <<"x">>, <<PrintStmt(Literal(Str("init"))), Return(Literal(Str("r")))>>)>>

ApiReady == pc = "returned" /\ mode = "api"

\* what a direct call leaves behind
ApiOutcome(op, target, this, r) ==
    /\ interpreter' = InterpreterOf(r.s)
    /\ stdout' = r.s.out
    /\ last' = [NoCall EXCEPT !.op = op, !.target = target, !.this = this,
                              !.is_initializer = (target.tag = "fun" /\ target.is_initializer),
                              !.result = r.v, !.ex = r.ex]
    /\ pc' = "called"
    /\ UNCHANGED <<mode, scanner, parser, source, statements, had_error, had_runtime_error, next_stmt,
                   uncaught, runs, hist, resolver>>

\* class.arity()
ApiArity ==
    /\ ApiReady
    /\ \E n \in GlobalsOf("class") :
          ApiOutcome("LoxClass.arity", GlobalValues[n], Nil,
                     Ok(World(interpreter, stdout), Num(LoxClass_arity(GlobalValues[n]))))

\* class.call(interpreter, arguments)
ApiClassCall ==
    /\ ApiReady
    /\ \E n \in GlobalsOf("class"), i \in 1..Len(ArgLists) :
          ApiOutcome("LoxClass.call", GlobalValues[n], Nil,
                     LoxClass_call(World(interpreter, stdout), GlobalValues[n], ArgLists[i]))

\* function.call(interpreter, arguments)
ApiFunctionCall ==
    /\ ApiReady
    /\ \E n \in GlobalsOf("fun"), i \in 1..Len(ArgLists) :
          ApiOutcome("LoxFunction.call", GlobalValues[n], Nil,
                     LoxFunction_call(World(interpreter, stdout), GlobalValues[n], ArgLists[i]))

\* function.bind(instance).call(interpreter, arguments), instance = LoxInstance(class)
BindAndCall(function, class, arguments) ==
    \E b \in {bind(LoxInstance_new(World(interpreter, stdout), class), function,
                   InstV(Len(interpreter.instances) + 1))} :
        ApiOutcome("LoxFunction.call", b.v, InstV(Len(interpreter.instances) + 1),
                   LoxFunction_call(b.s, b.v, arguments))

\* class.find_method(name).bind(LoxInstance(class)).call(interpreter, arguments)
ApiMethodCall ==
    /\ ApiReady
    /\ \E n \in GlobalsOf("class"), m \in MethodNames, i \in 1..Len(ArgLists) :
          /\ find_method(GlobalValues[n], m).tag # "nil"
          /\ BindAndCall(find_method(GlobalValues[n], m), GlobalValues[n], ArgLists[i])

\* LoxFunction(declaration, interpreter.globals, is_initializer), bound to an
\* instance of LoxClass("K", None, {}) and called
ApiConstructedCall ==
    /\ ApiReady
    /\ \E d \in 1..Len(InitDeclarations), is_initializer \in BOOLEAN, i \in 1..Len(ArgLists) :
          BindAndCall(FunV(interpreter.next_oid, InitDeclarations[d], GlobalsEnv, is_initializer),
                      ClassV(interpreter.next_oid + 1, "K", Nil, EmptyDict),
                      ArgLists[i])

ApiNext ==
    \/ RunStep
    \/ ApiArity
    \/ ApiClassCall
    \/ ApiFunctionCall
    \/ ApiMethodCall
    \/ ApiConstructedCall

ApiInit == InitWith("api") /\ last = NoCall

ApiSpec == ApiInit /\ [][ApiNext]_vars

(***************************************************************************)
(* The equality operators applied to two values: Binary.evaluate on        *)
(* `left == right` and `left != right`, then on the operands swapped.      *)
(***************************************************************************)
\* the largest number among the operands
MaxNum == 2

\* the operands: nil, the booleans, strings, the numbers 0..MaxNum
EqValues ==
    <<Nil, Bool(TRUE), Bool(FALSE), Str(""), Str("1"), Str("a")>>
        \o [i \in 1..(MaxNum + 1) |-> Num(i - 1)]

EqInit ==
    /\ InitWith("eq")
    /\ \E i, j \in 1..Len(EqValues) :
          last = [NoCall EXCEPT !.left = EqValues[i], !.right = EqValues[j]]

\* Binary(Literal(left), operator, Literal(right)).evaluate()
EvaluateEquality ==
    /\ mode = "eq"
    /\ pc = "idle"
    /\ \E operator \in {"==", "!="} :
       \E r \in {Evaluate(Binary(Literal(last.left), operator, Literal(last.right)),
                          World(interpreter, stdout))} :
          /\ last' = [last EXCEPT !.op = operator, !.result = r.v, !.ex = r.ex]
          /\ interpreter' = InterpreterOf(r.s)
          /\ stdout' = r.s.out
    /\ pc' = "compared"
    /\ UNCHANGED <<mode, scanner, parser, source, statements, had_error, had_runtime_error, next_stmt,
                   uncaught, runs, hist, resolver>>

\* Binary(Literal(right), operator, Literal(left)).evaluate()
EvaluateConverse ==
    /\ mode = "eq"
    /\ pc = "compared"
    /\ \E r \in {Evaluate(Binary(Literal(last.right), last.op, Literal(last.left)),
                          World(interpreter, stdout))} :
          /\ last' = [last EXCEPT !.converse = r.v,
                                  !.ex = IF Raised(r) THEN r.ex ELSE @]
          /\ interpreter' = InterpreterOf(r.s)
          /\ stdout' = r.s.out
    /\ pc' = "conversed"
    /\ UNCHANGED <<mode, scanner, parser, source, statements, had_error, had_runtime_error, next_stmt,
                   uncaught, runs, hist, resolver>>

EqNext ==
    \/ EvaluateEquality
    \/ EvaluateConverse

EqSpec == EqInit /\ [][EqNext]_vars

(***************************************************************************)
(* Environment called directly: define, get and assign on an environment   *)
(* of a chain.                                                             *)
(***************************************************************************)
\* the longest chain of environments
MaxChain == 3

\* the names the environments hold or are asked for
EnvNames == {"a", "b"}

\* the maps of an environment: some of the names, each with the given value
EnvMaps(value) == {[n \in held |-> value] : held \in SUBSET EnvNames}

\* the chains of n environments: environment 1 is the outermost and encloses
\* nothing, environment i + 1 is Environment(enclosing = environment i), and the
\* values of environment i are the number i
EnvChains(n) ==
    {chain \in [1..n -> [values : UNION {EnvMaps(Num(i)) : i \in 1..n}, enclosing : 0..(n - 1)]] :
        \A i \in 1..n : chain[i].enclosing = i - 1 /\ chain[i].values \in EnvMaps(Num(i))}

EnvInit ==
    /\ pc = "idle"
    /\ mode = "env"
    /\ \E n \in 1..MaxChain : \E chain \in EnvChains(n) :
          interpreter = [Interpreter_new EXCEPT !.envs = chain]
    /\ scanner = Scanner_new(<<>>)
    /\ parser = Parser_new(<<>>)
    /\ source = 0
    /\ statements = <<>>
    /\ had_error = FALSE
    /\ had_runtime_error = FALSE
    /\ stdout = <<>>
    /\ next_stmt = 1
    /\ uncaught = "none"
    /\ runs = 0
    /\ hist = NoHist
    /\ last = NoCall
    /\ resolver = Resolver_new([n \in {} |-> 0])

\* what a call of a method of Environment leaves behind
EnvOutcome(op, env, name, value, r) ==
    /\ interpreter' = InterpreterOf(r.s)
    /\ last' = [NoCall EXCEPT !.op = op, !.env = env, !.name = name, !.value = value,
                              !.before = interpreter.envs, !.result = r.v, !.ex = r.ex]
    /\ pc' = "applied"
    /\ UNCHANGED <<mode, scanner, parser, source, statements, had_error, had_runtime_error,
                   stdout, next_stmt, uncaught, runs, hist, resolver>>

EnvReady == mode = "env" /\ pc = "idle"

\* environment.define(name, value)
EnvDefine ==
    /\ EnvReady
    /\ \E env \in 1..Len(interpreter.envs), name \in EnvNames :
          EnvOutcome("define", env, name, Str("new"),
                     Ok(define(World(interpreter, stdout), env, name, Str("new")), Nil))

\* environment.get(name)
EnvGet ==
    /\ EnvReady
    /\ \E env \in 1..Len(interpreter.envs), name \in EnvNames :
          EnvOutcome("get", env, name, Nil, get(World(interpreter, stdout), env, name))

\* environment.assign(name, value)
EnvAssign ==
    /\ EnvReady
    /\ \E env \in 1..Len(interpreter.envs), name \in EnvNames :
          EnvOutcome("assign", env, name, Str("new"),
                     assign(World(interpreter, stdout), env, name, Str("new")))

EnvNext ==
    \/ EnvDefine
    \/ EnvGet
    \/ EnvAssign

EnvSpec == EnvInit /\ [][EnvNext]_vars

(***************************************************************************)
(* Lox.run on a source text: Scanner.scan_tokens, Parser.parse, then the   *)
(* stages above.                                                           *)
(***************************************************************************)
(* T_block_comment:
     /*
     This is a multiline block comment
     */
*)
T_block_comment ==
    [name |-> "T_block_comment", text |->
        <<"/", "*", "\n", "T", "h", "i", "s", " ", "i", "s", " ", "a", " ", "m", "u",
          "l", "t", "i", "l", "i", "n", "e", " ", "b", "l", "o", "c", "k", " ", "c",
          "o", "m", "m", "e", "n", "t", "\n", "*", "/", "\n">>]

(* T_var_in_then:
     // [line 2] Error at 'var': Expect expression.
     if (true) var foo;
*)
T_var_in_then ==
    [name |-> "T_var_in_then", text |->
        <<"/", "/", " ", "[", "l", "i", "n", "e", " ", "2", "]", " ", "E", "r", "r",
          "o", "r", " ", "a", "t", " ", "'", "v", "a", "r", "'", ":", " ", "E", "x",
          "p", "e", "c", "t", " ", "e", "x", "p", "r", "e", "s", "s", "i", "o", "n",
          ".", "\n", "i", "f", " ", "(", "t", "r", "u", "e", ")", " ", "v", "a", "r",
          " ", "f", "o", "o", ";", "\n">>]

(* T_fun_in_then:
     // [line 2] Error at 'fun': Expect expression.
     if (true) fun foo() {}
*)
T_fun_in_then ==
    [name |-> "T_fun_in_then", text |->
        <<"/", "/", " ", "[", "l", "i", "n", "e", " ", "2", "]", " ", "E", "r", "r",
          "o", "r", " ", "a", "t", " ", "'", "f", "u", "n", "'", ":", " ", "E", "x",
          "p", "e", "c", "t", " ", "e", "x", "p", "r", "e", "s", "s", "i", "o", "n",
          ".", "\n", "i", "f", " ", "(", "t", "r", "u", "e", ")", " ", "f", "u", "n",
          " ", "f", "o", "o", "(", ")", " ", "{", "}", "\n">>]

(* T_class_in_else:
     // [line 2] Error at 'class': Expect expression.
     if (true) "ok"; else class Foo {}
*)
T_class_in_else ==
    [name |-> "T_class_in_else", text |->
        <<"/", "/", " ", "[", "l", "i", "n", "e", " ", "2", "]", " ", "E", "r", "r",
          "o", "r", " ", "a", "t", " ", "'", "c", "l", "a", "s", "s", "'", ":", " ",
          "E", "x", "p", "e", "c", "t", " ", "e", "x", "p", "r", "e", "s", "s", "i",
          "o", "n", ".", "\n", "i", "f", " ", "(", "t", "r", "u", "e", ")", " ", "\"",
          "o", "k", "\"", ";", " ", "e", "l", "s", "e", " ", "c", "l", "a", "s", "s",
          " ", "F", "o", "o", " ", "{", "}", "\n">>]

(* T_while_class_in_body:
     // [line 2] Error at 'class': Expect expression.
     while (true) class Foo {}
*)
T_while_class_in_body ==
    [name |-> "T_while_class_in_body", text |->
        <<"/", "/", " ", "[", "l", "i", "n", "e", " ", "2", "]", " ", "E", "r", "r",
          "o", "r", " ", "a", "t", " ", "'", "c", "l", "a", "s", "s", "'", ":", " ",
          "E", "x", "p", "e", "c", "t", " ", "e", "x", "p", "r", "e", "s", "s", "i",
          "o", "n", ".", "\n", "w", "h", "i", "l", "e", " ", "(", "t", "r", "u", "e",
          ")", " ", "c", "l", "a", "s", "s", " ", "F", "o", "o", " ", "{", "}", "\n">>]

(* T_for_var_in_body:
     // [line 2] Error at 'var': Expect expression.
     for (;;) var foo;
*)
T_for_var_in_body ==
    [name |-> "T_for_var_in_body", text |->
        <<"/", "/", " ", "[", "l", "i", "n", "e", " ", "2", "]", " ", "E", "r", "r",
          "o", "r", " ", "a", "t", " ", "'", "v", "a", "r", "'", ":", " ", "E", "x",
          "p", "e", "c", "t", " ", "e", "x", "p", "r", "e", "s", "s", "i", "o", "n",
          ".", "\n", "f", "o", "r", " ", "(", ";", ";", ")", " ", "v", "a", "r", " ",
          "f", "o", "o", ";", "\n">>]

(* T_while_return_inside:
     fun f() {
       while (true) {
         var i = "i";
         return i;
       }
     }
     
     print f();
     // expect: i
*)
T_while_return_inside ==
    [name |-> "T_while_return_inside", text |->
        <<"f", "u", "n", " ", "f", "(", ")", " ", "{", "\n", " ", " ", "w", "h", "i",
          "l", "e", " ", "(", "t", "r", "u", "e", ")", " ", "{", "\n", " ", " ", " ",
          " ", "v", "a", "r", " ", "i", " ", "=", " ", "\"", "i", "\"", ";", "\n", " ",
          " ", " ", " ", "r", "e", "t", "u", "r", "n", " ", "i", ";", "\n", " ", " ",
          "}", "\n", "}", "\n", "\n", "p", "r", "i", "n", "t", " ", "f", "(", ")", ";",
          "\n", "/", "/", " ", "e", "x", "p", "e", "c", "t", ":", " ", "i", "\n">>]

\* the sources of the tests of the repository
TestTexts ==
    <<T_block_comment, T_var_in_then, T_fun_in_then, T_class_in_else,
      T_while_class_in_body, T_for_var_in_body, T_while_return_inside>>

(* T_var_no_init:
     var x;
     print x;
*)
(* T_var_init:
     var x = 1;
     print x;
*)
(* T_this_outside:
     print this;
*)
(* T_super_outside:
     super.m;
*)
(* T_super_no_superclass:
     class A { m() { super.m; } }
*)
(* T_super_in_subclass:
     class A {}
     class B < A { m() { super.m; this.m; } }
*)
(* T_nested_class:
     class A {}
     class B < A {
       m() {
         class C { n() { super.n; this.n; } }
         super.m;
       }
     }
*)
(* T_local_depth:
     var g = 0;
     {
       var a = 1;
       {
         var b = 2;
         print a;
         print b;
         print g;
       }
     }
*)
(* T_this_depth:
     class A { m() { print this; } }
*)
(* T_eof_word:
     print 1;
     var eof = 2;
     print 3;
*)
(* T_return_top:
     print 1;
     return 1;
*)
(* T_for_loop:
     for (var i = 0; i < 2; i = i + 1) print i;
*)
(* T_unterminated:
     print 1;
     print "a
     b
*)
(* T_bad_target:
     1 = 2;
     print (1 + 2) * 3 == 9 and !false or nil;
*)
(* T_while_var_body:
     while (true) var foo;
*)
(* T_for_fun_body:
     for (;;) fun foo() {}
*)
InputTexts ==
    <<[name |-> "T_var_no_init", text |->
        <<"v", "a", "r", " ", "x", ";", "\n", "p", "r", "i", "n", "t", " ", "x", ";",
          "\n">>],
      [name |-> "T_var_init", text |->
        <<"v", "a", "r", " ", "x", " ", "=", " ", "1", ";", "\n", "p", "r", "i", "n",
          "t", " ", "x", ";", "\n">>],
      [name |-> "T_this_outside", text |->
        <<"p", "r", "i", "n", "t", " ", "t", "h", "i", "s", ";", "\n">>],
      [name |-> "T_super_outside", text |->
        <<"s", "u", "p", "e", "r", ".", "m", ";", "\n">>],
      [name |-> "T_super_no_superclass", text |->
        <<"c", "l", "a", "s", "s", " ", "A", " ", "{", " ", "m", "(", ")", " ", "{",
          " ", "s", "u", "p", "e", "r", ".", "m", ";", " ", "}", " ", "}", "\n">>],
      [name |-> "T_super_in_subclass", text |->
        <<"c", "l", "a", "s", "s", " ", "A", " ", "{", "}", "\n", "c", "l", "a", "s",
          "s", " ", "B", " ", "<", " ", "A", " ", "{", " ", "m", "(", ")", " ", "{",
          " ", "s", "u", "p", "e", "r", ".", "m", ";", " ", "t", "h", "i", "s", ".",
          "m", ";", " ", "}", " ", "}", "\n">>],
      [name |-> "T_nested_class", text |->
        <<"c", "l", "a", "s", "s", " ", "A", " ", "{", "}", "\n", "c", "l", "a", "s",
          "s", " ", "B", " ", "<", " ", "A", " ", "{", "\n", " ", " ", "m", "(", ")",
          " ", "{", "\n", " ", " ", " ", " ", "c", "l", "a", "s", "s", " ", "C", " ",
          "{", " ", "n", "(", ")", " ", "{", " ", "s", "u", "p", "e", "r", ".", "n",
          ";", " ", "t", "h", "i", "s", ".", "n", ";", " ", "}", " ", "}", "\n", " ",
          " ", " ", " ", "s", "u", "p", "e", "r", ".", "m", ";", "\n", " ", " ", "}",
          "\n", "}", "\n">>],
      [name |-> "T_local_depth", text |->
        <<"v", "a", "r", " ", "g", " ", "=", " ", "0", ";", "\n", "{", "\n", " ", " ",
          "v", "a", "r", " ", "a", " ", "=", " ", "1", ";", "\n", " ", " ", "{", "\n",
          " ", " ", " ", " ", "v", "a", "r", " ", "b", " ", "=", " ", "2", ";", "\n",
          " ", " ", " ", " ", "p", "r", "i", "n", "t", " ", "a", ";", "\n", " ", " ",
          " ", " ", "p", "r", "i", "n", "t", " ", "b", ";", "\n", " ", " ", " ", " ",
          "p", "r", "i", "n", "t", " ", "g", ";", "\n", " ", " ", "}", "\n", "}", "\n">>],
      [name |-> "T_this_depth", text |->
        <<"c", "l", "a", "s", "s", " ", "A", " ", "{", " ", "m", "(", ")", " ", "{",
          " ", "p", "r", "i", "n", "t", " ", "t", "h", "i", "s", ";", " ", "}", " ",
          "}", "\n">>],
      [name |-> "T_eof_word", text |->
        <<"p", "r", "i", "n", "t", " ", "1", ";", "\n", "v", "a", "r", " ", "e", "o",
          "f", " ", "=", " ", "2", ";", "\n", "p", "r", "i", "n", "t", " ", "3", ";",
          "\n">>],
      [name |-> "T_return_top", text |->
        <<"p", "r", "i", "n", "t", " ", "1", ";", "\n", "r", "e", "t", "u", "r", "n",
          " ", "1", ";", "\n">>],
      [name |-> "T_for_loop", text |->
        <<"f", "o", "r", " ", "(", "v", "a", "r", " ", "i", " ", "=", " ", "0", ";",
          " ", "i", " ", "<", " ", "2", ";", " ", "i", " ", "=", " ", "i", " ", "+",
          " ", "1", ")", " ", "p", "r", "i", "n", "t", " ", "i", ";", "\n">>],
      [name |-> "T_unterminated", text |->
        <<"p", "r", "i", "n", "t", " ", "1", ";", "\n", "p", "r", "i", "n", "t", " ",
          "\"", "a", "\n", "b">>],
      [name |-> "T_bad_target", text |->
        <<"1", " ", "=", " ", "2", ";", "\n", "p", "r", "i", "n", "t", " ", "(", "1",
          " ", "+", " ", "2", ")", " ", "*", " ", "3", " ", "=", "=", " ", "9", " ",
          "a", "n", "d", " ", "!", "f", "a", "l", "s", "e", " ", "o", "r", " ", "n",
          "i", "l", ";", "\n">>],
      [name |-> "T_while_var_body", text |->
        <<"w", "h", "i", "l", "e", " ", "(", "t", "r", "u", "e", ")", " ", "v", "a",
          "r", " ", "f", "o", "o", ";", "\n">>],
      [name |-> "T_for_fun_body", text |->
        <<"f", "o", "r", " ", "(", ";", ";", ")", " ", "f", "u", "n", " ", "f", "o",
          "o", "(", ")", " ", "{", "}", "\n">>]>>

\* further sources handed to Lox.run
(* T_non_loop_break:
     fun f1(a) {
         break;  // Expect resolver error: Can't use 'break' outside of a for or while loop.
     }
*)
T_non_loop_break ==
    [name |-> "T_non_loop_break", text |->
        <<"f", "u", "n", " ", "f", "1", "(", "a", ")", " ", "{", "\n", " ", " ", " ",
          " ", "b", "r", "e", "a", "k", ";", " ", " ", "/", "/", " ", "E", "x", "p",
          "e", "c", "t", " ", "r", "e", "s", "o", "l", "v", "e", "r", " ", "e", "r",
          "r", "o", "r", ":", " ", "C", "a", "n", "'", "t", " ", "u", "s", "e", " ",
          "'", "b", "r", "e", "a", "k", "'", " ", "o", "u", "t", "s", "i", "d", "e",
          " ", "o", "f", " ", "a", " ", "f", "o", "r", " ", "o", "r", " ", "w", "h",
          "i", "l", "e", " ", "l", "o", "o", "p", ".", "\n", "}", "\n">>]

(* T_assign_local:
     var a = 0;
     {
       var a = 1;
       a = 2;
       print a;
     }
     print a;
*)
T_assign_local ==
    [name |-> "T_assign_local", text |->
        <<"v", "a", "r", " ", "a", " ", "=", " ", "0", ";", "\n", "{", "\n", " ", " ",
          "v", "a", "r", " ", "a", " ", "=", " ", "1", ";", "\n", " ", " ", "a", " ",
          "=", " ", "2", ";", "\n", " ", " ", "p", "r", "i", "n", "t", " ", "a", ";",
          "\n", "}", "\n", "p", "r", "i", "n", "t", " ", "a", ";", "\n">>]

(* T_set_on_num:
     123.foo = 1;
     print 2;
*)
T_set_on_num ==
    [name |-> "T_set_on_num", text |->
        <<"1", "2", "3", ".", "f", "o", "o", " ", "=", " ", "1", ";", "\n", "p", "r",
          "i", "n", "t", " ", "2", ";", "\n">>]

(* T_recover:
     print 1;
     var = 2;
     print 3;
     {
       (4;
       print 5;
     }
     print 6;
*)
T_recover ==
    [name |-> "T_recover", text |->
        <<"p", "r", "i", "n", "t", " ", "1", ";", "\n", "v", "a", "r", " ", "=", " ",
          "2", ";", "\n", "p", "r", "i", "n", "t", " ", "3", ";", "\n", "{", "\n", " ",
          " ", "(", "4", ";", "\n", " ", " ", "p", "r", "i", "n", "t", " ", "5", ";",
          "\n", "}", "\n", "p", "r", "i", "n", "t", " ", "6", ";", "\n">>]

(* T_stray_paren:
     print 1;
     )
     print 2;
     eof
     print 3;
*)
T_stray_paren ==
    [name |-> "T_stray_paren", text |->
        <<"p", "r", "i", "n", "t", " ", "1", ";", "\n", ")", "\n", "p", "r", "i", "n",
          "t", " ", "2", ";", "\n", "e", "o", "f", "\n", "p", "r", "i", "n", "t", " ",
          "3", ";", "\n">>]

MoreTexts ==
    <<T_non_loop_break, T_assign_local, T_set_on_num, T_recover,
      T_stray_paren>>

\* the sources handed to Lox.run as text
Texts == TestTexts \o InputTexts \o MoreTexts

\* sources of the scanner's own tests and of its boundary cases:
\*   punctuators: '(){};,+-*!===<=>=!=<>/.'
\*   numbers: '123\n123.456\n.456\n123.\n1.50'
\*   block comment: '/*x*/'
\*   words: 'and _a1 string number identifier eof nil'
\*   comment and string: 'a // b "c"\n"d // e" f'
ScannerTexts ==
    {<<"(", ")", "{", "}", ";", ",", "+", "-", "*", "!", "=", "=", "=", "<", "=",
          ">", "=", "!", "=", "<", ">", "/", ".">>,
     <<"1", "2", "3", "\n", "1", "2", "3", ".", "4", "5", "6", "\n", ".", "4", "5",
          "6", "\n", "1", "2", "3", ".", "\n", "1", ".", "5", "0">>,
     <<"/", "*", "x", "*", "/">>,
     <<"a", "n", "d", " ", "_", "a", "1", " ", "s", "t", "r", "i", "n", "g", " ",
          "n", "u", "m", "b", "e", "r", " ", "i", "d", "e", "n", "t", "i", "f", "i",
          "e", "r", " ", "e", "o", "f", " ", "n", "i", "l">>,
     <<"a", " ", "/", "/", " ", "b", " ", "\"", "c", "\"", "\n", "\"", "d", " ",
          "/", "/", " ", "e", "\"", " ", "f">>}

\* what the front end reported through Lox.report since `before`
Reported(before, after) == Len(after.errors) > Len(before.errors)

\* Lox.run is called with a source text; scanner = Scanner(source)
RunText(t) ==
    /\ pc = "idle"
    /\ runs < 1
    /\ source' = t
    /\ scanner' = Scanner_new(Texts[t].text)
    /\ statements' = <<>>
    /\ hist' = NoHist
    /\ runs' = runs + 1
    /\ next_stmt' = 1
    /\ pc' = "scanning"
    /\ UNCHANGED <<mode, parser, had_error, had_runtime_error, interpreter, stdout,
                   uncaught, last, resolver>>

\* one turn of the loop of scan_tokens: start = current, scan_token()
ScanToken ==
    /\ pc = "scanning"
    /\ ~isAtEnd(scanner)
    /\ \E sc \in {scan_token([scanner EXCEPT !.start = scanner.current])} :
           /\ scanner' = sc
           /\ had_error' = (had_error \/ Reported(scanner, sc))
           /\ hist' = [hist EXCEPT !.reported =
                                       IF Reported(scanner, sc) THEN "front_end" ELSE @,
                                   !.before = scanner]
    /\ UNCHANGED <<pc, mode, parser, source, statements, had_runtime_error, interpreter,
                   stdout, next_stmt, uncaught, runs, last, resolver>>

\* the loop of scan_tokens ends: the EOF token is appended and the tokens returned
ScanDone ==
    /\ pc = "scanning"
    /\ isAtEnd(scanner)
    /\ scanner' = append_eof(scanner)
    /\ pc' = "scanned"
    /\ UNCHANGED <<mode, parser, source, statements, had_error, had_runtime_error,
                   interpreter, stdout, next_stmt, uncaught, runs, hist, last, resolver>>

\* Parser.parse has been entered and not left
Parsing ==
    \/ pc = "scanned" /\ mode = "text"
    \/ pc = "parsing"

\* parser = Parser(tokens), made when Parser.parse is entered
CurrentParser == IF pc = "scanned" THEN Parser_new(scanner.tokens) ELSE parser

\* one turn of the loop of Parser.parse: a declaration that is None is dropped
ParseDeclaration ==
    /\ Parsing
    /\ ~is_at_end(CurrentParser)
    /\ \E r \in {declaration(CurrentParser)} :
           /\ parser' = r.p
           /\ statements' = IF r.node.k = "None" THEN statements
                            ELSE Append(statements, r.node)
           /\ had_error' = (had_error \/ Reported(CurrentParser, r.p))
           /\ hist' = [hist EXCEPT !.reported =
                          IF Reported(CurrentParser, r.p) THEN "front_end" ELSE @,
                                   !.turn = [parser |-> CurrentParser,
                                             statements |-> statements]]
    /\ pc' = "parsing"
    /\ UNCHANGED <<mode, scanner, source, had_runtime_error, interpreter, stdout,
                   next_stmt, uncaught, runs, last, resolver>>

\* Parser.parse returns the statements
ParseDone ==
    /\ Parsing
    /\ is_at_end(CurrentParser)
    /\ parser' = CurrentParser
    /\ pc' = "parsed"
    /\ UNCHANGED <<mode, scanner, source, statements, had_error, had_runtime_error,
                   interpreter, stdout, next_stmt, uncaught, runs, hist, last, resolver>>

FrontInit == InitWith("text") /\ last = NoCall

FrontNext ==
    \/ \E t \in 1..Len(Texts) : RunText(t)
    \/ ScanToken
    \/ ScanDone
    \/ ParseDeclaration
    \/ ParseDone
    \/ ReturnAfterParse
    \/ ResolveStatement
    \/ ResolveDone
    \/ ReturnAfterResolve
    \/ InterpretStatement
    \/ InterpretDone

FrontSpec == FrontInit /\ [][FrontNext]_vars

(***************************************************************************)
(* The scanner alone, on every source of bounded length over a small       *)
(* alphabet and on the sources of its tests.                               *)
(***************************************************************************)
\* the length of the generated sources
MaxSourceLength == 4

\* letters of the words eof, or and for, a digit, the quote, the newline, the slash
ScanAlphabet == {"e", "o", "f", "r", "1", "\"", "\n", "/"}

ScanSources ==
    UNION {[1..n -> ScanAlphabet] : n \in 0..MaxSourceLength} \cup ScannerTexts

\* scanner = Scanner(source)
ScanInit ==
    /\ pc = "scanning"
    /\ mode = "scan"
    /\ \E text \in ScanSources : scanner = Scanner_new(text)
    /\ parser = Parser_new(<<>>)
    /\ source = 0
    /\ statements = <<>>
    /\ had_error = FALSE
    /\ had_runtime_error = FALSE
    /\ interpreter = Interpreter_new
    /\ stdout = <<>>
    /\ next_stmt = 1
    /\ uncaught = "none"
    /\ runs = 0
    /\ hist = NoHist
    /\ last = NoCall
    /\ resolver = Resolver_new([n \in {} |-> 0])

ScanNext ==
    \/ ScanToken
    \/ ScanDone

ScanSpec == ScanInit /\ [][ScanNext]_vars

(***************************************************************************)
(* The claims.                                                             *)
(***************************************************************************)
\* Lox.run has ended: it returned, or an exception left it
RunEnded == pc \in {"returned", "crashed"}

\* the first Lox.run of the process, on the named source, has ended
FirstRunEnded(name) == runs = 1 /\ RunEnded /\ Programs[source].name = name

\* C1: in Lox.run the resolver and the interpreter run only if no scan or parse
\* error was reported for the source, and the interpreter runs only if no
\* resolve error was reported either: once an earlier stage of the run has
\* set had_error, no statement of the program is executed.
C1_StagesGated ==
    /\ hist.reported = "front_end" => ~hist.resolved /\ hist.executed = 0
    /\ hist.reported = "resolve" => hist.executed = 0

\* a run whose resolver reported an error has returned with its statements unexecuted
C1_Witness ==
    /\ pc = "returned"
    /\ hist.reported = "resolve"
    /\ hist.resolved
    /\ Len(statements) > 1
    /\ hist.executed = 0
    /\ had_error

\* the messages of the operand type errors of Binary.evaluate and Unary.evaluate
OperandTypeMessages ==
    {"operands must be numbers", "operarands must both be strs or numbers",
     "operand must be a number"}

\* C2: an operand type error of '+', '-', '*', '/', '<', '<=', '>', '>=' or unary
\* '-' is handled as a Lox runtime error: Interpreter.interpret catches it,
\* had_runtime_error becomes true and no later statement is executed.
C2_OperandErrorsCaught ==
    hist.ex.msg \in OperandTypeMessages =>
        /\ pc = "returned"
        /\ had_runtime_error
        /\ uncaught = "none"

\* the errors of a property access on a non-instance, of a call with the wrong
\* number of arguments and of a superclass that is not a class
PropertyCallSuperclassMessages ==
    {"Only instances have properties.", "name LoxInstance is not defined",
     "Expected arguments", "Superclass must be a class"}

\* C3: after any Lox.run whose program hits a runtime error (property access on
\* a non-instance, call with the wrong number of arguments, non-class
\* superclass), both had_runtime_error and had_error are true.
C3_BothFlagsSet ==
    RunEnded /\ hist.ex.msg \in PropertyCallSuperclassMessages =>
        /\ pc = "returned"
        /\ had_runtime_error
        /\ had_error

\* C4: a variable reference in a function body keeps denoting the declaration
\* visible where the function was defined: in the early-bound program both calls
\* of foo complete without error and both print the global a (outer, outer).
C4_EarlyBound ==
    FirstRunEnded("P_early_bound") =>
        /\ pc = "returned"
        /\ hist.ex.kind = "none"
        /\ ~had_error /\ ~had_runtime_error
        /\ stdout = <<"outer", "outer">>

\* C5: super.say() in B.test, called on an instance of C (C < B < A), runs A's
\* say, and the run ends with no error (output A).
C5_SuperInInheritedMethod ==
    FirstRunEnded("P_super_in_inherited_method") =>
        /\ pc = "returned"
        /\ hist.ex.kind = "none"
        /\ ~had_error /\ ~had_runtime_error
        /\ stdout = <<"A">>

\* C6: a call whose argument count equals the callee's arity invokes the callee;
\* the arity error is raised only for a call whose argument count differs from
\* the arity.
C6_ArityErrorOnlyOnMismatch ==
    hist.ex.msg = "Expected arguments" => hist.ex.arity # hist.ex.got

\* C7: calling a class yields a new instance of it; a class with no init is
\* callable with zero arguments and the run reports neither a compile-time nor a
\* runtime error.
C7_ClassCallYieldsInstance ==
    FirstRunEnded("P_constructor_default") =>
        /\ pc = "returned"
        /\ hist.ex.kind = "none"
        /\ ~had_error /\ ~had_runtime_error
        /\ Len(interpreter.instances) = 1

\* C8: a call of a function value with is_initializer = true returns the value
\* bound to `this` in its closure, whether the body completes normally, executes
\* a bare return, or a return-value unwind carrying another value is caught.
C8_InitializerReturnsThis ==
    last.op = "LoxFunction.call" /\ last.is_initializer /\ last.ex.kind = "none" =>
        last.result = last.this

\* an initializer whose body is `return 5;` was called and returned its instance
C8_Witness ==
    /\ last.op = "LoxFunction.call"
    /\ last.is_initializer
    /\ last.ex.kind = "none"
    /\ last.target.declaration.body = InitDeclarations[3].body
    /\ last.this.tag = "inst"
    /\ last.result = last.this

RECURSIVE NearestInitParams(_)
\* the parameter count of the nearest init on the superclass chain, 0 without one
NearestInitParams(class) ==
    IF "init" \in DOMAIN class.methods THEN Len(class.methods["init"].declaration.params)
    ELSE IF class.superclass.tag = "class" THEN NearestInitParams(class.superclass)
    ELSE 0

\* C9: for every class C, arity(C) is the number of parameters of the init found
\* by walking C and then its superclass chain (the nearest definition wins), and
\* 0 when no class of the chain defines init.
C9_ClassArity ==
    last.op = "LoxClass.arity" => last.result = Num(NearestInitParams(last.target))

\* arity was asked of a class that inherits an init with parameters
C9_Witness ==
    /\ last.op = "LoxClass.arity"
    /\ "init" \notin DOMAIN last.target.methods
    /\ last.target.superclass.tag = "class"
    /\ last.result = Num(2)

\* same tag and equal payload
SameTagAndPayload(a, b) == a.tag = b.tag /\ (a.tag = "nil" \/ a.v = b.v)

\* C10: a == b is true exactly when a and b have the same tag and equal
\* payload, a != b is its negation, values of different tags compare unequal,
\* neither operator raises, and the relation is reflexive and symmetric over
\* nil, booleans, bounded numbers and strings.
C10_Equality ==
    last.op \in {"==", "!="} =>
        /\ last.ex.kind = "none"
        /\ last.result = Bool((last.op = "==") = SameTagAndPayload(last.left, last.right))
        /\ last.left.tag # last.right.tag => last.result = Bool(last.op = "!=")
        /\ last.left = last.right => last.result = Bool(last.op = "==")
        /\ pc = "conversed" => last.converse = last.result

\* the string "1" was compared with the number 1, both ways round, and found unequal
C10_Witness ==
    /\ pc = "conversed"
    /\ last.op = "=="
    /\ last.left.tag = "str" /\ last.left.v = "1"
    /\ last.right.tag = "num" /\ last.right.v = 1
    /\ last.result = Bool(FALSE)
    /\ last.converse = Bool(FALSE)

\* the 16 keywords and the token kind of each
KeywordKinds ==
    "and" :> "AND" @@ "class" :> "CLASS" @@ "else" :> "ELSE" @@ "false" :> "FALSE"
    @@ "for" :> "FOR" @@ "fun" :> "FUN" @@ "if" :> "IF" @@ "nil" :> "NIL" @@ "or" :> "OR"
    @@ "print" :> "PRINT" @@ "return" :> "RETURN" @@ "super" :> "SUPER"
    @@ "this" :> "THIS" @@ "true" :> "TRUE" @@ "var" :> "VAR" @@ "while" :> "WHILE"

RECURSIVE WordEnd(_, _)
\* the end of the maximal run of [A-Za-z_0-9] that holds position i of the text
WordEnd(text, i) ==
    IF i < Len(text) /\ text[i + 1] \in LETTERS \cup DIGITS THEN WordEnd(text, i + 1) ELSE i

\* the last turn of scan_tokens began at a letter or an underscore
WordScanned ==
    /\ pc = "scanning"
    /\ scanner.current > scanner.start
    /\ scanner.source[scanner.start + 1] \in LETTERS

\* the identifier-shaped lexeme that turn began at
ScannedWord == Slice(scanner.source, scanner.start, WordEnd(scanner.source, scanner.start))

\* C11: for every identifier-shaped lexeme the scanner emits exactly one token:
\* of the keyword's kind if and only if the lexeme is one of the 16 keywords,
\* and otherwise an IDENTIFIER token with null literal.
C11_KeywordsAndIdentifiers ==
    WordScanned =>
        scanner.tokens =
            Append(hist.before.tokens,
                   Token(IF ScannedWord \in DOMAIN KeywordKinds THEN KeywordKinds[ScannedWord]
                         ELSE "IDENTIFIER",
                         ScannedWord, Nil, hist.before.line))

RECURSIVE Lexemes(_)
\* the lexemes of the tokens, concatenated in order (the lexeme of EOF is empty)
Lexemes(tokens) ==
    IF tokens = <<>> THEN "" ELSE Head(tokens).lexeme \o Lexemes(Tail(tokens))

RECURSIVE SkipLine(_, _)
\* the position of the newline that ends a line comment, or the end of the text
SkipLine(text, i) ==
    IF i < Len(text) /\ text[i + 1] # "\n" THEN SkipLine(text, i + 1) ELSE i

RECURSIVE SkipBlock(_, _)
\* the position after the */ that closes a block comment, or the end of the text
SkipBlock(text, i) ==
    IF i >= Len(text) THEN i
    ELSE IF i + 1 < Len(text) /\ text[i + 1] = "*" /\ text[i + 2] = "/" THEN i + 2
    ELSE SkipBlock(text, i + 1)

RECURSIVE StringEnd(_, _)
\* the position after the quote that closes a string literal, or the end of the text
StringEnd(text, i) ==
    IF i >= Len(text) THEN i
    ELSE IF text[i + 1] = "\"" THEN i + 1
    ELSE StringEnd(text, i + 1)

RECURSIVE Stripped(_, _)
\* the text from position i on, without the whitespace outside string literals
\* and without the line comments and the block comments
Stripped(text, i) ==
    IF i >= Len(text) THEN ""
    ELSE IF text[i + 1] \in {" ", "\r", "\t", "\n"} THEN Stripped(text, i + 1)
    ELSE IF text[i + 1] = "/" /\ i + 1 < Len(text) /\ text[i + 2] = "/"
        THEN Stripped(text, SkipLine(text, i + 2))
    ELSE IF text[i + 1] = "/" /\ i + 1 < Len(text) /\ text[i + 2] = "*"
        THEN Stripped(text, SkipBlock(text, i + 2))
    ELSE IF text[i + 1] = "\""
        THEN Slice(text, i, StringEnd(text, i + 1)) \o Stripped(text, StringEnd(text, i + 1))
    ELSE text[i + 1] \o Stripped(text, i + 1)

\* scan_tokens returned and reported no error
ScannedWithoutError == pc = "scanned" /\ scanner.errors = <<>>

\* C12: for a source that scans without error, the lexemes of the tokens
\* concatenated in order (EOF contributing the empty lexeme) are the source with
\* the whitespace outside string literals and all comments removed.
C12_LexemesAreTheSource ==
    ScannedWithoutError => Lexemes(scanner.tokens) = Stripped(scanner.source, 0)

\* Lox.run of the named source text returned or crashed
TextRunEnded(name) == mode = "text" /\ RunEnded /\ Texts[source].name = name

\* C13: a block comment produces no tokens and no error: running the source of
\* test_only_block_comment (a multi-line block comment and nothing else)
\* returns with had_error false, had_runtime_error false and no output.
C13_BlockCommentIgnored ==
    TextRunEnded("T_block_comment") =>
        /\ pc = "returned"
        /\ scanner.tokens = <<Token("EOF", "", NoLiteral, scanner.line)>>
        /\ scanner.errors = <<>>
        /\ ~had_error
        /\ ~had_runtime_error
        /\ stdout = <<>>

\* the last turn of scan_tokens opened a string literal that the source never closes
UnterminatedScanned ==
    /\ pc \in {"scanning", "scanned"}
    /\ scanner.current > scanner.start
    /\ scanner.source[scanner.start + 1] = "\""
    /\ \A i \in (scanner.start + 2)..Len(scanner.source) : scanner.source[i] # "\""

\* the number of newlines in the text after position i
NewlinesAfter(text, i) == Cardinality({j \in (i + 1)..Len(text) : text[j] = "\n"})

\* the scanner after an unterminated string, when the one error it reports names
\* the given line: no token for the string, and EOF appended by scan_tokens
UnterminatedReportedAt(line) ==
    /\ scanner.errors = Append(hist.before.errors, ErrorReport(line, "", "Unterminated string"))
    /\ \A i \in 1..Len(scanner.tokens) : scanner.tokens[i].type # "STRING"
           \/ i <= Len(hist.before.tokens)
    /\ pc = "scanning" => scanner.tokens = hist.before.tokens
    /\ pc = "scanned" =>
           /\ Len(scanner.tokens) = Len(hist.before.tokens) + 1
           /\ SubSeq(scanner.tokens, 1, Len(hist.before.tokens)) = hist.before.tokens
           /\ scanner.tokens[Len(scanner.tokens)].type = "EOF"
           /\ scanner.tokens[Len(scanner.tokens)].lexeme = ""

\* C14 as stated: an unterminated string literal reports exactly one error,
\* whose line is the line of the opening quote (also when the unterminated text
\* holds newlines); no STRING token is emitted and EOF is still appended.
C14_ErrorOnOpeningLine ==
    UnterminatedScanned => UnterminatedReportedAt(hist.before.line)

\* C14 amended: an unterminated string literal reports exactly one error, whose
\* line is the line the source ends on (the line of the opening quote plus the
\* newlines of the unterminated text); no STRING token is emitted and EOF is
\* still appended.
C14_ErrorOnLastLine ==
    UnterminatedScanned =>
        UnterminatedReportedAt(hist.before.line
                               + NewlinesAfter(scanner.source, scanner.start))

\* scan_tokens returned after an unterminated string that holds a newline and
\* follows a token
C14_Witness ==
    /\ UnterminatedScanned
    /\ pc = "scanned"
    /\ NewlinesAfter(scanner.source, scanner.start) > 0
    /\ hist.before.tokens # <<>>

\* the entries of the resolver's trace that resolve_local wrote
LocalEvents == {i \in 1..Len(resolver.trace) : resolver.trace[i].op = "local"}

\* C15: for every reference (variable, assignment, this, super) whose name is
\* found in the resolver's scopes, the depth recorded in interpreter.locals is
\* the number of scopes stepped outward from the innermost scope to the nearest
\* scope that holds the name; `this` directly in a method body is recorded at
\* depth 1 and `super` at depth 2.
C15_DepthIsScopesSteppedOut ==
    mode = "text" =>
        \A i \in LocalEvents :
            LET event == resolver.trace[i]
            IN  /\ event.depth = event.distance
                /\ event.id \in DOMAIN interpreter.locals
                /\ (event.name = "this" /\ event.distance = 1) => event.depth = 1
                /\ (event.name = "super" /\ event.distance = 2) => event.depth = 2

\* the positions of the tokens var, fun and class that stand where the body of
\* an if, a while or a for begins: right after the closing parenthesis of the
\* header, or right after else
DeclarationBodies(tokens) ==
    {i \in 2..Len(tokens) :
        /\ tokens[i].type \in {"VAR", "FUN", "CLASS"}
        /\ tokens[i - 1].type \in {"RIGHT_PAREN", "ELSE"}}

\* Lox.run ended on a source text with a declaration as the body of a statement
DeclarationBodyRun ==
    /\ mode = "text"
    /\ RunEnded
    /\ DeclarationBodies(scanner.tokens) # {}

\* C16: a var, fun or class declaration directly as the body of an if, a while
\* or a for is a parse error reported at that keyword: the run ends with
\* had_error true and had_runtime_error false, and nothing is executed.
C16_DeclarationAsBodyRejected ==
    DeclarationBodyRun =>
        /\ pc = "returned"
        /\ had_error
        /\ ~had_runtime_error
        /\ ~hist.resolved
        /\ hist.executed = 0
        /\ stdout = <<>>
        /\ \A i \in DeclarationBodies(scanner.tokens) :
               \E e \in 1..Len(parser.errors) :
                   parser.errors[e] = error_token(scanner.tokens[i], "Expect expression.")

\* the run of test_while_class_in_body's source has ended
C16_Witness ==
    /\ DeclarationBodyRun
    /\ Texts[source].name = "T_while_class_in_body"
    /\ Len(parser.errors) = 1

\* C17: `var x;` parses without error to a Var statement with no initializer,
\* and executing it defines x with the value nil.
C17_VarWithoutInitializer ==
    TextRunEnded("T_var_no_init") =>
        /\ pc = "returned"
        /\ parser.errors = <<>>
        /\ ~had_error
        /\ Len(statements) >= 1
        /\ statements[1] = VarStmt("x", NoNode)
        /\ "x" \in DOMAIN interpreter.envs[GlobalsEnv].values
        /\ interpreter.envs[GlobalsEnv].values["x"] = Nil

\* C18: a property access on a value that is not an instance raises the Lox
\* runtime error 'Only instances have properties.', which Interpreter.interpret
\* catches, setting had_runtime_error (on an instance: the field, else the
\* bound method, else the caught Lox runtime error 'Undefined property').
C18_GetOnNonInstance ==
    FirstRunEnded("P_get_on_num") =>
        /\ pc = "returned"
        /\ uncaught = "none"
        /\ hist.ex.kind = "LoxRuntimeError"
        /\ hist.ex.msg = "Only instances have properties."
        /\ had_runtime_error

\* C19: a return statement at any nesting depth inside a function body ends
\* exactly that call, whose value is the returned value; the unwind never leaves
\* Interpreter.interpret, and a return at top level is rejected by the resolver.
\* In test_while_return_inside's program f() returns "i" from inside a while
\* loop and the program prints it.
C19_ReturnEndsTheCall ==
    /\ TextRunEnded("T_while_return_inside") =>
           /\ pc = "returned"
           /\ uncaught = "none"
           /\ ~had_error
           /\ ~had_runtime_error
           /\ hist.ex.kind = "none"
           /\ stdout = <<"i">>
    /\ TextRunEnded("T_return_top") =>
           /\ pc = "returned"
           /\ had_error
           /\ hist.reported = "resolve"
           /\ hist.executed = 0

\* the entries of the resolver's trace with the given operation
EventsOf(op) == {i \in 1..Len(resolver.trace) : resolver.trace[i].op = op}

\* C20: the resolver reports an error, setting had_error, for every `this` or
\* `super` met while current_class is NONE and for every `super` met while
\* current_class is CLASS; it reports no such error while current_class is
\* SUBCLASS; and on leaving a class declaration current_class is again what it
\* was on entering it.
C20_ClassContextChecked ==
    mode = "text" =>
        /\ \A i \in EventsOf("this") :
               /\ resolver.trace[i].class = "NONE" => resolver.trace[i].error
               /\ resolver.trace[i].class = "SUBCLASS" => ~resolver.trace[i].error
        /\ \A i \in EventsOf("super") :
               /\ resolver.trace[i].class \in {"NONE", "CLASS"} => resolver.trace[i].error
               /\ resolver.trace[i].class = "SUBCLASS" => ~resolver.trace[i].error
        /\ \A i \in EventsOf("this") \cup EventsOf("super") :
               resolver.trace[i].error => had_error /\ resolver.errors # <<>>
        /\ \A i \in EventsOf("class") : resolver.trace[i].after = resolver.trace[i].class
        /\ pc \in {"resolved", "returned"} => resolver.current_class = "NONE"

\* in one run: a `super` rejected inside a class without superclass that is
\* nested in a method of a subclass, then that class left, then a `super`
\* accepted in the subclass
C20_Witness ==
    /\ mode = "text"
    /\ \E i \in EventsOf("super"), j \in EventsOf("class"), k \in EventsOf("super") :
           /\ i < j /\ j < k
           /\ resolver.trace[i].class = "CLASS" /\ resolver.trace[i].error
           /\ resolver.trace[j].class = "SUBCLASS"
           /\ resolver.trace[k].class = "SUBCLASS" /\ ~resolver.trace[k].error
    /\ had_error

\* C21: a `break;` that is in no while or for loop (here directly in a function
\* body, the program of test_non_loop_break) is rejected before execution: after
\* the run had_error is true and had_runtime_error is false.
C21_BreakOutsideLoopRejected ==
    TextRunEnded("T_non_loop_break") =>
        /\ pc = "returned"
        /\ had_error
        /\ ~had_runtime_error
        /\ hist.executed = 0

\* C22: a block and a function body restore interpreter.environment on every
\* exit path (completion, return unwind, runtime error) and a class declaration
\* with a superclass pops the environment of `super`: interpreter.environment is
\* the global environment whenever Interpreter.interpret or a call has returned.
\* In the nested-blocks program the statement after the inner block reads the
\* variable of the outer block.
C22_EnvironmentRestored ==
    /\ interpreter.environment = GlobalsEnv
    /\ interpreter.envs[GlobalsEnv].enclosing = 0
    /\ FirstRunEnded("P_nested_blocks") =>
           /\ stdout = <<"2">>
           /\ hist.ex.kind # "none"

\* a direct call of a function has ended with an exception raised in its body,
\* after the call made its environment
C22_Witness ==
    /\ pc = "called"
    /\ last.op = "LoxFunction.call"
    /\ last.ex.kind # "none"
    /\ Len(interpreter.envs) > 1
    /\ interpreter.environment = GlobalsEnv

\* C23: `l or r` is the value of l when it is truthy (r is not evaluated) and
\* the value of r otherwise; `l and r` is the value of l when it is falsy and
\* the value of r otherwise.  The program `print nil or 3; print 1 and 5;`
\* prints 3 and 5.
C23_LogicalOperators ==
    FirstRunEnded("P_logical") =>
        /\ pc = "returned"
        /\ hist.ex.kind = "none"
        /\ stdout = <<"3", "5">>

\* C24: an assignment `x = e` whose target the resolver recorded at depth d
\* writes the value of e to x in ancestor(d) of the current environment and
\* changes no other binding (without a recorded depth it assigns the global x),
\* and yields the assigned value.  In the program T_assign_local the assignment
\* in the block writes the a of the block and leaves the global a alone: the
\* program prints 2 and 0.
C24_AssignWritesTheResolvedBinding ==
    TextRunEnded("T_assign_local") =>
        /\ pc = "returned"
        /\ ~had_error
        /\ ~had_runtime_error
        /\ stdout = <<"2", "0">>
        /\ interpreter.envs[GlobalsEnv].values["a"] = Num(0)

\* C25: `o.name = e` on an instance evaluates o, then e, stores the value of e
\* in the fields of that instance and yields it; when o is not an instance it
\* raises the Lox runtime error 'Only instances have fields.' without
\* evaluating e: the run of `123.foo = 1;` ends in Interpreter.interpret with
\* had_runtime_error set.
C25_SetOnNonInstance ==
    TextRunEnded("T_set_on_num") =>
        /\ pc = "returned"
        /\ uncaught = "none"
        /\ hist.ex.kind = "LoxRuntimeError"
        /\ hist.ex.msg = "Only instances have fields."
        /\ had_runtime_error
        /\ stdout = <<>>

RECURSIVE ChainOf(_, _)
\* the environments of the chain that starts at env, innermost first
ChainOf(heap, env) ==
    IF env = 0 THEN <<>> ELSE <<env>> \o ChainOf(heap, heap[env].enclosing)

\* the environments of the chain of the call that held the name before the call
Holders ==
    {i \in 1..Len(ChainOf(last.before, last.env)) :
        last.name \in DOMAIN last.before[ChainOf(last.before, last.env)[i]].values}

\* the nearest of them
NearestHolder ==
    ChainOf(last.before, last.env)[CHOOSE i \in Holders : \A j \in Holders : i <= j]

\* the environments after the call are those before it, except that the given
\* environment now maps the name of the call to the value of the call
OnlyWritten(env) ==
    /\ Len(interpreter.envs) = Len(last.before)
    /\ \A i \in 1..Len(last.before) : i # env => interpreter.envs[i] = last.before[i]
    /\ interpreter.envs[env].enclosing = last.before[env].enclosing
    /\ DOMAIN interpreter.envs[env].values = DOMAIN last.before[env].values \cup {last.name}
    /\ \A n \in DOMAIN interpreter.envs[env].values :
           interpreter.envs[env].values[n] =
               IF n = last.name THEN last.value ELSE last.before[env].values[n]

\* the call failed with 'Undefined variable' and changed no environment
UndefinedVariable ==
    /\ last.ex.msg = "Undefined variable"
    /\ last.ex.kind = "LoxRuntimeError"
    /\ interpreter.envs = last.before

\* C26: on a chain of environments, define changes only the map of the
\* environment it is called on; get returns the value of the nearest environment
\* of the chain that holds the name; assign updates the name only in the nearest
\* environment that holds it; and when no environment of the chain holds the
\* name, get and assign fail with 'Undefined variable' and change nothing.
C26_EnvironmentChain ==
    (mode = "env" /\ pc = "applied") =>
        /\ last.op = "define" => ~Raised(last) /\ OnlyWritten(last.env)
        /\ (last.op = "get" /\ Holders # {}) =>
               /\ ~Raised(last)
               /\ last.result = last.before[NearestHolder].values[last.name]
               /\ interpreter.envs = last.before
        /\ (last.op = "assign" /\ Holders # {}) => ~Raised(last) /\ OnlyWritten(NearestHolder)
        /\ (last.op \in {"get", "assign"} /\ Holders = {}) => UndefinedVariable

\* assign was called on an environment that does not hold the name while two
\* environments further out do
C26_Witness ==
    /\ mode = "env"
    /\ pc = "applied"
    /\ last.op = "assign"
    /\ Cardinality(Holders) = 2
    /\ NearestHolder # last.env
    /\ interpreter.envs[NearestHolder].values[last.name] = Str("new")

\* the last turn of the loop of Parser.parse ended in the except branch of
\* Parser.declaration: its declaration raised ParseError and None came back
DeclarationRaised ==
    /\ mode = "text"
    /\ pc = "parsing"
    /\ declaration(hist.turn.parser).node.k = "None"

\* where Parser.synchronize leaves the parser
Synchronized(p) ==
    \/ is_at_end(p)
    \/ previous(p).type = "SEMICOLON"
    \/ Parser_peek(p).type \in {"CLASS", "FUN", "VAR", "FOR", "IF", "WHILE", "PRINT", "RETURN"}

\* C27: when a declaration raises a parse error, had_error is set, the
\* declaration adds no statement to the output of the parser, and the parser
\* is left at EOF, or just after a `;`, or in front of one of class, fun, var,
\* for, if, while, print, return; a declaration that does not raise adds
\* exactly one statement; and the declarations after a synchronisation point
\* are parsed and returned: of `print 1; var = 2; print 3; { (4; print 5; }
\* print 6;` the parser returns print 1, print 3, the block of print 5, and
\* print 6.
C27_ParseErrorRecovery ==
    /\ DeclarationRaised =>
           /\ had_error
           /\ statements = hist.turn.statements
           /\ Synchronized(parser)
    /\ mode = "text" /\ pc = "parsing" /\ ~DeclarationRaised =>
           /\ Len(statements) = Len(hist.turn.statements) + 1
           /\ SubSeq(statements, 1, Len(hist.turn.statements)) = hist.turn.statements
    /\ TextRunEnded("T_recover") =>
           /\ had_error
           /\ statements = <<PrintStmt(Literal(Num(1))), PrintStmt(Literal(Num(3))),
                             Block(<<PrintStmt(Literal(Num(5)))>>),
                             PrintStmt(Literal(Num(6)))>>

\* the parser has recovered twice in T_recover, once inside the block, and has
\* returned the statements around the two errors
C27_Witness ==
    /\ TextRunEnded("T_recover")
    /\ Len(parser.errors) = 2
    /\ Len(statements) = 4
    /\ statements[3].k = "Block"

\* the calls of begin_scope and of end_scope among the first k entries of the
\* resolver's trace
ScopeCalls(op, k) == Cardinality({i \in EventsOf(op) : i <= k})

\* C28: whenever the resolver has walked a statement of the list, and so when
\* it has walked all of them, with or without errors, its scope stack is empty,
\* current_function is NONE and current_class is NONE; end_scope was never
\* called on an empty stack, at no point were there more calls of end_scope
\* than of begin_scope, and in the end there are as many of each.
C28_ResolverLeavesNothingOpen ==
    /\ resolver.scopes = <<>>
    /\ resolver.current_function = "NONE"
    /\ resolver.current_class = "NONE"
    /\ \A i \in EventsOf("end") : resolver.trace[i].depth >= 1
    /\ \A k \in 1..Len(resolver.trace) : ScopeCalls("end", k) <= ScopeCalls("begin", k)
    /\ ScopeCalls("end", Len(resolver.trace)) = ScopeCalls("begin", Len(resolver.trace))

\* the resolver has walked a whole list in which it reported an error and in
\* which three scopes were open at once (a method of a subclass)
C28_Witness ==
    /\ mode = "text"
    /\ pc = "resolved"
    /\ resolver.errors # <<>>
    /\ \E i \in EventsOf("end") : resolver.trace[i].depth >= 3
    /\ \E i \in EventsOf("class") : resolver.trace[i].class = "NONE"

\* a step of Parser.parse: a turn of its loop, or its return
ParseTurn == Parsing /\ pc' \in {"parsing", "parsed"}

\* the run with Parser.parse scheduled: Python goes on executing parse while
\* it can, so a step of parse that stays possible is taken (weak fairness of
\* ParseTurn, which is enabled exactly when Parsing holds and the step changes
\* the state)
FairFrontSpec ==
    FrontInit /\ [][FrontNext]_vars /\ ([]<>(~Parsing) \/ []<><<ParseTurn>>_vars)

\* the position (from 0, as `current` counts) of the first EOF token
FirstEOF(tokens) ==
    CHOOSE i \in 0..(Len(tokens) - 1) :
        /\ tokens[i + 1].type = "EOF"
        /\ \A j \in 0..(i - 1) : tokens[j + 1].type # "EOF"

\* a parser of the scanned tokens with its cursor at position i
ParserAt(i) == [Parser_new(scanner.tokens) EXCEPT !.current = i]

\* what holds of the parser while and after Parser.parse runs: the cursor is
\* never past the first EOF, and every turn of the loop of parse has moved it
\* forward; and what holds of its methods at every position before the first
\* EOF: synchronize discards at least one token, a declaration (a turn of the
\* loops of parse and of block) returns further on, whether it raised or not,
\* and so does a method (a turn of the loop of class_declaration) that does not
\* raise; none of them goes past the first EOF
ParserAdvances ==
    /\ mode = "text" /\ pc \in {"parsing", "parsed"} =>
           /\ parser.tokens = scanner.tokens
           /\ parser.current <= FirstEOF(parser.tokens)
    /\ mode = "text" /\ pc = "parsing" =>
           /\ ~is_at_end(hist.turn.parser)
           /\ parser.current > hist.turn.parser.current
    /\ mode = "text" /\ pc = "scanned" =>
           \A i \in 0..(FirstEOF(scanner.tokens) - 1) :
               LET end == FirstEOF(scanner.tokens)
                   after == synchronize(ParserAt(i))
                   turn == declaration(ParserAt(i))
                   method == Parser_function(ParserAt(i), "method")
               IN  /\ i < after.current /\ after.current <= end
                   /\ i < turn.p.current /\ turn.p.current <= end
                   /\ method.p.current <= end
                   /\ ~method.raised => i < method.p.current
    /\ mode = "text" /\ pc = "scanned" =>
           synchronize(ParserAt(FirstEOF(scanner.tokens))).current = FirstEOF(scanner.tokens)

\* C29: Parser.parse terminates on every token list of the scanner: once the
\* tokens are scanned the parser returns (leads to pc = "parsed"), because the
\* cursor never passes the first EOF, synchronize discards at least one token
\* unless the parser is at EOF, and no turn of the loops of parse, block and
\* class_declaration leaves the cursor where it was.
C29_ParseTerminates ==
    /\ []ParserAdvances
    /\ (mode = "text" /\ pc = "scanned") ~> (pc = "parsed")

\* Parser.parse has returned at an EOF token that is not the last token, after
\* a parse error at the first token of a declaration
C29_Witness ==
    /\ mode = "text"
    /\ pc = "parsed"
    /\ Texts[source].name = "T_stray_paren"
    /\ parser.current = FirstEOF(parser.tokens)
    /\ parser.current < Len(parser.tokens) - 1
    /\ parser.errors # <<>>
    /\ Len(statements) = 2

\* a call of Lox.run has ended that reported no error itself while had_error is
\* set: had_error was set when it was called
RunEndedUnderEarlierError == RunEnded /\ had_error /\ hist.reported = "none"

\* a step that clears had_error is the reset of run_prompt between two runs,
\* and no step clears had_runtime_error
FlagsKept ==
    /\ had_runtime_error => had_runtime_error'
    /\ had_error /\ ~had_error' => mode = "prompt" /\ pc = "returned" /\ pc' = "idle"

\* C30: Lox.run never clears had_error or had_runtime_error.  A call of Lox.run
\* made while had_error is set returns without resolving or executing
\* anything, even when its own source has no error; without the reset of
\* run_prompt had_error stays set from one call to the next; and
\* had_runtime_error, once set, stays set in every later step, in the prompt
\* too.
C30_FlagsAreNeverCleared ==
    /\ [](RunEndedUnderEarlierError =>
              /\ pc = "returned"
              /\ ~hist.resolved
              /\ hist.executed = 0)
    /\ [][FlagsKept]_vars

\* the second call of Lox.run, on a source without errors, has returned without
\* resolving or executing because the first call had set had_error
C30_Witness ==
    /\ runs = 2
    /\ mode = "direct"
    /\ Programs[source].name = "P_arith"
    /\ RunEndedUnderEarlierError
    /\ stdout = <<>>

====
